---- MODULE Spec2Model ----
(***************************************************************************)
(* picoceph: the supervisor of cmd/main.go (an errgroup over one unit of   *)
(* work per Ceph component), the components' Configure and Start, the nbd  *)
(* device allocator and the dashboard's readiness poll.                    *)
(*                                                                         *)
(* The specifications of the module:                                       *)
(*   Spec      the supervisor and the components' lifecycles               *)
(*   SpecNbd   nbd.NextFreeDevice against a changing /sys/block            *)
(*   SpecPoll  Dashboard.Configure's polling loop against a clock          *)
(*   SpecOsd   OSD.Configure: createDevice (nbd.Setup, NextFreeDevice,      *)
(*             qemu-nbd, LVM), then ceph-volume                            *)
(*   SpecPollLive  SpecPoll with the progress of scheduler and clock       *)
(*   SpecLog   the components' log forwarding tasks and the shared sink    *)
(*   SpecCred  the credential exchange of Manager/RADOSGW.Configure        *)
(*   SpecConf  main: the cluster identity, ceph.conf, the units' launch    *)
(*   SpecMon   Monitor.Configure: the keyrings and the temporary files     *)
(***************************************************************************)
EXTENDS Integers, Sequences, FiniteSets, TLC

VARIABLES
    \* ---- supervisor (cmd/main.go) ----
    mainPc,      \* position of main: "writeConf", "launch", "wait", "exited"
    launched,    \* number of g.Go calls made so far
    ctxDone,     \* the errgroup's ctx is done (parent cancelled or first error)
    signalled,   \* the signal goroutine received SIGTERM/SIGINT and called cancel()
    gErr,        \* errgroup's g.err, set once
    state,       \* lifecycle state of every component
    cmd,         \* per component: "none", "head" or "running" (its external command)
    ended,       \* history, per component: why its unit returned (EndClass)
    firstFault,  \* history: the first error returned that cancellation did not cause
    exitCode,    \* -1 while the process runs, then the exit code
    logged,      \* the error logged by logger.Error before os.Exit(1)
    fwd,         \* per component: the unit has started its log forwarding task
    \* ---- nbd.NextFreeDevice ----
    sysBlock,    \* /sys/block: device name -> state of its pid file
    nfPc,        \* per caller: "idle", "scan", "done"
    nfDevices,   \* per caller: names returned by Readdirnames
    nfIdx,       \* per caller: number of names the loop has handled
    nfAvail,     \* per caller: availableNBDDevices
    nfSeen,      \* per caller: history, what ReadFile saw for each name
    nfPath,      \* per caller: returned path ("" on error)
    nfErr,       \* per caller: returned error ("" = nil)
    \* ---- Dashboard.Configure ----
    now,         \* seconds since Configure was called
    readyAt,     \* the stub lists the dashboard module from this second on
    stubKind,    \* the list in which the stub names the module, or "fail"
                 \* (the command exits 1) or "garbage" (its output is not JSON)
    parentDone,  \* the ctx passed to Configure is cancelled
    pollPc,      \* "head", "exec", "query", "sleep", "done"
    qElapsed,    \* seconds the running query (or sleep) has taken
    qSample,     \* the output of the running query, NoOutput until it is produced
    pollErr,     \* result of Configure: "" (none yet), "nil", or the error kind
    pollMsg,     \* the exec error text inside pollErr
    \* ---- OSD.createDevice (nbd.Setup, NextFreeDevice, qemu-nbd) ----
    cdPc,        \* "prepare", "modprobe", "stat", "pick", "attach", a later step, "done"
    cdCtxDone,   \* the ctx passed to Configure is cancelled
    cdModprobe,  \* history: how "/sbin/modprobe nbd" ended: "-", "ok", "failed"
    cdStat,      \* history: what os.Stat("/sys/block/nbd0") found: "-", "exists", "missing"
    cdSetup,     \* what nbd.Setup returned: "-", "nil", "unsupported"
    cdPath,      \* nbdDevicePath (<<>> until NextFreeDevice returned one)
    cdAttached,  \* history: the device qemu-nbd --connect was run on (<<>> = never)
    cdErr,       \* what createDevice returned: "" (nothing yet), "nil", or the error
    cdLog,       \* history: the steps of Configure that ran, each with its result
    \* ---- log forwarding ----
    lgUnit,      \* per component: position of its unit of work
    lgTask,      \* per component: its forwarding task
    lgSrc,       \* per log file: the lines written to it so far
    lgPos,       \* per component: number of lines its task has read
    lgSink,      \* the shared sink: the records emitted so far
    lgReported,  \* components whose Logs() failure was reported
    lgErr,       \* the component whose unit first returned an error ("-" = none)
    \* ---- Configure's credential exchange (manager, gateway) ----
    crWho,       \* whose Configure runs
    crNow,       \* seconds since context.WithTimeout
    crPc,        \* "fs", "exec", "run", "owner", "done"
    crParentDone,\* the ctx passed to Configure is cancelled
    crCmd,       \* history: "none", "running", "exit0", "exit1", "killed"
    crErr,       \* what Configure returned: "" (nothing yet), "nil", or the error
    \* ---- main: cluster identity and ceph.conf ----
    cfPc,        \* "gen", "create", "render", "owner", "launch", "wait", "exited"
    cfFsid,      \* main's fsid ("none" before uuid.New)
    cfGen,       \* history: number of identities generated
    cfFile,      \* /etc/ceph/ceph.conf: "none", "partial", or the fsid rendered into it
    cfMonFsid,   \* the fsid the monitor's Configure uses ("none" before it runs)
    cfLaunched,  \* number of g.Go calls made so far
    cfUnit,      \* per daemon: "idle", "configuring", "started"
    \* ---- Monitor.Configure ----
    mnPc,        \* the step Configure is at, "done" when it has returned
    mnRun,       \* number of the invocation (0 = not yet invoked)
    mnFiles,     \* per file: its content (NoFile when the file is absent)
    mnGen,       \* number of the last key material generated
    mnPre,       \* history: mnFiles when the current invocation began
    mnLog,       \* history: the steps of the current invocation, with results
    mnErr        \* what the last invocation returned ("" = nothing yet)

supVars  == <<mainPc, launched, ctxDone, signalled, gErr, state, cmd, ended,
              firstFault, exitCode, logged, fwd>>
nbdVars  == <<sysBlock, nfPc, nfDevices, nfIdx, nfAvail, nfSeen, nfPath, nfErr>>
pollVars == <<now, readyAt, stubKind, parentDone, pollPc, qElapsed, qSample,
              pollErr, pollMsg>>
osdVars  == <<cdPc, cdCtxDone, cdModprobe, cdStat, cdSetup, cdPath, cdAttached, cdErr,
              cdLog>>
logVars  == <<lgUnit, lgTask, lgSrc, lgPos, lgSink, lgReported, lgErr>>
credVars == <<crWho, crNow, crPc, crParentDone, crCmd, crErr>>
confVars == <<cfPc, cfFsid, cfGen, cfFile, cfMonFsid, cfLaunched, cfUnit>>
monVars  == <<mnPc, mnRun, mnFiles, mnGen, mnPre, mnLog, mnErr>>
vars     == <<supVars, nbdVars, pollVars, osdVars, logVars, credVars, confVars,
              monVars>>

(***************************************************************************)
(* Errors                                                                  *)
(***************************************************************************)

\* strings.Contains on texts kept as sequences of words.
Contains(s, sub) ==
    \E i \in 1..(Len(s) - Len(sub) + 1) : SubSeq(s, i, i + Len(sub) - 1) = sub

\* The text of the error os/exec (or the file system) gives for an outcome.
ExecMsg(out) ==
    CASE out = "killedCtx"  -> <<"signal:", "killed">>
      [] out = "killedExt"  -> <<"signal:", "killed">>
      [] out = "exit1"      -> <<"exit", "status", "1">>
      [] out = "ctxErr"     -> <<"context", "canceled">>
      [] out = "ctxDeadline" -> <<"context", "deadline", "exceeded">>
      [] out = "launchFail" -> <<"executable", "file", "not", "found">>
      [] out = "fs"         -> <<"permission", "denied">>
      [] out = "parse"      -> <<"invalid", "character">>
      [] out = "timedOut"   -> <<"timed", "out", "waiting">>
      [] OTHER              -> <<>>

\* What errors.Is finds at the bottom of the %w chain.
ExecIs(out) ==
    CASE out = "ctxErr"                                  -> "context.Canceled"
      [] out = "ctxDeadline"                             -> "context.DeadlineExceeded"
      [] out \in {"killedCtx", "killedExt", "exit1"}     -> "exec.ExitError"
      [] out = "timedOut"                                -> "none"
      [] OTHER                                           -> "other"

\* History only: whether cancellation of the shared context caused the outcome.
CauseOf(out) == IF out \in {"killedCtx", "ctxErr", "timedOut"} THEN "cancel" ELSE "fault"

NoErr == [comp |-> "-", phase |-> "-", msg |-> <<>>, is |-> "-", cause |-> "-"]

\* fmt.Errorf("could not <phase> <comp>: %w", err) of a unit of work.
WrapErr(c, phase, out) ==
    [comp |-> c, phase |-> phase, msg |-> ExecMsg(out), is |-> ExecIs(out),
     cause |-> CauseOf(out)]

IsCanceled(err) == err.is = "context.Canceled"

(***************************************************************************)
(* Components                                                              *)
(***************************************************************************)

Daemons == {"mon", "mgr", "osd", "rgw"}
Order   == <<"mon", "mgr", "osd", "rgw", "dashboard">>
Comps   == {Order[i] : i \in 1..Len(Order)}

Terminal == {"Stopped", "Failed"}

\* The ways a launched process ends.
ProcOutcomes == {"exit0", "exit1", "killedCtx", "killedExt"}

\* History only: the way the process Start waited on ended, and for every
\* other return whether cancellation caused it ("cancel") or not ("fault").
EndClass(phase, out) ==
    IF phase = "start" /\ out \in ProcOutcomes THEN out ELSE CauseOf(out)

\* Start's classification of the daemon command's error (the mutant drops the
\* "signal: killed" test, as Dashboard.Start has none).
StartResultNoFilter(c, out) ==
    IF out = "exit0" THEN NoErr ELSE WrapErr(c, "start", out)

StartResult(c, out) ==
    IF out = "exit0" THEN NoErr
    ELSE IF c \in Daemons /\ Contains(ExecMsg(out), <<"signal:", "killed">>) THEN NoErr
    ELSE WrapErr(c, "start", out)

\* The unit of work invokes Start only after Configure returned nil (one mutant
\* forgets the return after a failed Configure, the other does not wait for
\* Configure to return).
CanStartAfterFailure(c) == state[c] \in {"Configured", "Failed"}

CanStartDuringConfigure(c) == state[c] \in {"Configuring", "Configured"}

\* (a third mutant starts a component only after the one launched before it
\* has been started)
CanStartInOrder(c) ==
    /\ state[c] = "Configured"
    /\ \A i \in 2..Len(Order) :
           Order[i] = c => state[Order[i - 1]] \in {"Running", "Stopped", "Failed"}

CanStart(c) == state[c] = "Configured"

\* The state a unit's return leaves its component in (the mutant runs the
\* unit again after an error).
StateAfterRetry(err) == IF err = NoErr THEN "Stopped" ELSE "Unconfigured"

StateAfter(err) == IF err = NoErr THEN "Stopped" ELSE "Failed"

\* errgroup cancels the shared context on a non-nil return only (the mutant
\* cancels it on every return).
CancelsGroupAlways(err) == TRUE

CancelsGroup(err) == err # NoErr

\* g.Go's wrapper: the unit returned err (NoErr = nil).
UnitReturn(c, phase, out, err) ==
    /\ state' = [state EXCEPT ![c] = StateAfter(err)]
    /\ cmd' = [cmd EXCEPT ![c] = "none"]
    /\ ended' = [ended EXCEPT ![c] = EndClass(phase, out)]
    /\ gErr' = IF err # NoErr /\ gErr = NoErr THEN err ELSE gErr
    /\ ctxDone' = (ctxDone \/ CancelsGroup(err))
    /\ firstFault' = IF err # NoErr /\ err.cause = "fault" /\ firstFault = NoErr
                     THEN err ELSE firstFault
    /\ UNCHANGED <<mainPc, launched, signalled, exitCode, logged, fwd>>

(***************************************************************************)
(* main (cmd/main.go)                                                      *)
(***************************************************************************)

ConfErr == [comp |-> "main", phase |-> "writeConf", msg |-> ExecMsg("fs"),
            is |-> "other", cause |-> "fault"]

\* ceph.conf is written before the errgroup exists.
WriteConfOk ==
    /\ mainPc = "writeConf"
    /\ mainPc' = "launch"
    /\ UNCHANGED <<launched, ctxDone, signalled, gErr, state, cmd, ended, firstFault,
                   exitCode, logged, fwd>>
    /\ UNCHANGED <<nbdVars, pollVars, osdVars, logVars, credVars, confVars, monVars>>

\* writeCephConf failed: logger.Error, os.Exit(1).
WriteConfFail ==
    /\ mainPc = "writeConf"
    /\ mainPc' = "exited"
    /\ logged' = ConfErr
    /\ exitCode' = 1
    /\ UNCHANGED <<launched, ctxDone, signalled, gErr, state, cmd, ended, firstFault, fwd>>
    /\ UNCHANGED <<nbdVars, pollVars, osdVars, logVars, credVars, confVars, monVars>>

\* One g.Go call; after the last one main registers the signal handler and
\* blocks in g.Wait.
Launch ==
    /\ mainPc = "launch"
    /\ launched' = launched + 1
    /\ mainPc' = IF launched + 1 = Len(Order) THEN "wait" ELSE "launch"
    /\ UNCHANGED <<ctxDone, signalled, gErr, state, cmd, ended, firstFault, exitCode,
                   logged, fwd>>
    /\ UNCHANGED <<nbdVars, pollVars, osdVars, logVars, credVars, confVars, monVars>>

IsLaunched(c) == \E i \in 1..launched : Order[i] = c

\* SIGTERM or SIGINT reaches sigCh; the goroutine calls cancel().
Signal ==
    /\ mainPc = "wait"
    /\ ~signalled
    /\ signalled' = TRUE
    /\ ctxDone' = TRUE
    /\ UNCHANGED <<mainPc, launched, gErr, state, cmd, ended, firstFault, exitCode,
                   logged, fwd>>
    /\ UNCHANGED <<nbdVars, pollVars, osdVars, logVars, credVars, confVars, monVars>>

\* The exit code main chooses from g.Wait's error.
ExitCodeOf(err) == IF err # NoErr /\ ~IsCanceled(err) THEN 1 ELSE 0

\* g.Wait's condition: every unit has returned (the mutant returns as soon as
\* the group holds an error).
JoinedOnFirstError == gErr # NoErr \/ \A c \in Comps : state[c] \in Terminal

Joined == \A c \in Comps : state[c] \in Terminal

\* g.Wait returns once every unit has returned; main logs and exits.
Wait ==
    /\ mainPc = "wait"
    /\ Joined
    /\ mainPc' = "exited"
    /\ exitCode' = ExitCodeOf(gErr)
    /\ logged' = IF ExitCodeOf(gErr) = 1 THEN gErr ELSE NoErr
    /\ ctxDone' = TRUE
    /\ UNCHANGED <<launched, signalled, gErr, state, cmd, ended, firstFault, fwd>>
    /\ UNCHANGED <<nbdVars, pollVars, osdVars, logVars, credVars, confVars, monVars>>

(***************************************************************************)
(* One unit of work: Configure, then Start                                 *)
(***************************************************************************)

Step(c, st, cm) ==
    /\ state' = [state EXCEPT ![c] = st]
    /\ cmd' = [cmd EXCEPT ![c] = cm]
    /\ UNCHANGED <<mainPc, launched, ctxDone, signalled, gErr, ended, firstFault,
                   exitCode, logged, fwd>>

\* The goroutine is scheduled and calls Configure.
ConfigureCall(c) ==
    /\ IsLaunched(c)
    /\ state[c] = "Unconfigured"
    /\ Step(c, "Configuring", IF c = "dashboard" THEN "head" ELSE "none")
    /\ UNCHANGED <<nbdVars, pollVars, osdVars, logVars, credVars, confVars, monVars>>

\* A file-system call of a daemon's Configure (MkdirAll, Create, Chown) fails.
ConfigureFsFail(c) ==
    /\ c \in Daemons
    /\ state[c] = "Configuring" /\ cmd[c] = "none"
    /\ UnitReturn(c, "configure", "fs", WrapErr(c, "configure", "fs"))
    /\ UNCHANGED <<nbdVars, pollVars, osdVars, logVars, credVars, confVars, monVars>>

\* Dashboard.Configure's select at the loop head.
DashLoopHead ==
    /\ state["dashboard"] = "Configuring" /\ cmd["dashboard"] = "head"
    /\ IF ctxDone
       THEN UnitReturn("dashboard", "configure", "timedOut",
                       WrapErr("dashboard", "configure", "timedOut"))
       ELSE Step("dashboard", "Configuring", "none")
    /\ UNCHANGED <<nbdVars, pollVars, osdVars, logVars, credVars, confVars, monVars>>

\* exec.CommandContext(ctx, ...) is started: cmd.Start returns ctx.Err() when
\* the context is already done.
ConfigureExec(c) ==
    /\ state[c] = "Configuring" /\ cmd[c] = "none"
    /\ IF ctxDone
       THEN UnitReturn(c, "configure", "ctxErr", WrapErr(c, "configure", "ctxErr"))
       ELSE Step(c, "Configuring", "running")
    /\ UNCHANGED <<nbdVars, pollVars, osdVars, logVars, credVars, confVars, monVars>>

\* The outcomes a running command can have: it exits by itself, or the
\* context is done and exec kills it.
CmdOutcomes == {"exit0", "exit1"} \cup (IF ctxDone THEN {"killedCtx"} ELSE {})

\* A daemon's Configure command ends; Configure returns.
ConfigureFinish(c, out) ==
    /\ c \in Daemons
    /\ state[c] = "Configuring" /\ cmd[c] = "running"
    /\ out \in CmdOutcomes
    /\ IF out = "exit0"
       THEN Step(c, "Configured", "none")
       ELSE UnitReturn(c, "configure", out, WrapErr(c, "configure", out))
    /\ UNCHANGED <<nbdVars, pollVars, osdVars, logVars, credVars, confVars, monVars>>

\* The dashboard's module query ends: an error, unparsable output, the module
\* listed (Configure returns nil) or not listed (sleep, then the loop head).
DashQueryFinish(out) ==
    /\ state["dashboard"] = "Configuring" /\ cmd["dashboard"] = "running"
    /\ out \in CmdOutcomes \cup {"parse", "absent"}
    /\ IF out = "exit0" THEN Step("dashboard", "Configured", "none")
       ELSE IF out = "absent" THEN Step("dashboard", "Configuring", "head")
       ELSE UnitReturn("dashboard", "configure", out,
                       WrapErr("dashboard", "configure", out))
    /\ UNCHANGED <<nbdVars, pollVars, osdVars, logVars, credVars, confVars, monVars>>

\* Configure returned nil: the unit starts the component's log forwarding (not
\* joined) and calls Start.
StartCall(c) ==
    /\ CanStart(c)
    /\ state' = [state EXCEPT ![c] = "Starting"]
    /\ fwd' = [fwd EXCEPT ![c] = TRUE]
    /\ UNCHANGED <<mainPc, launched, ctxDone, signalled, gErr, cmd, ended, firstFault,
                   exitCode, logged>>
    /\ UNCHANGED <<nbdVars, pollVars, osdVars, logVars, credVars, confVars, monVars>>

\* Start launches its command.
StartExec(c) ==
    /\ state[c] = "Starting"
    /\ IF ctxDone
       THEN UnitReturn(c, "start", "ctxErr", WrapErr(c, "start", "ctxErr"))
       ELSE Step(c, "Running", "running")
    /\ UNCHANGED <<nbdVars, pollVars, osdVars, logVars, credVars, confVars, monVars>>

\* The daemon binary cannot be launched.
StartLaunchFail(c) ==
    /\ c \in Daemons
    /\ state[c] = "Starting"
    /\ ~ctxDone
    /\ UnitReturn(c, "start", "launchFail", WrapErr(c, "start", "launchFail"))
    /\ UNCHANGED <<nbdVars, pollVars, osdVars, logVars, credVars, confVars, monVars>>

\* The ways the command of a daemon's Start ends: by itself, by a SIGKILL
\* from outside, or killed by exec once the shared context is done; Start puts
\* no deadline of its own on it (the mutant's command runs under a timeout
\* context that can expire at any time).
StartOutcomesWithTimeout == {"exit0", "exit1", "killedExt", "killedCtx"}

StartOutcomes == CmdOutcomes \cup {"killedExt"}

\* A daemon's process ends (also by a SIGKILL from outside); Start returns.
StartFinish(c, out) ==
    /\ c \in Daemons
    /\ state[c] = "Running" /\ cmd[c] = "running"
    /\ out \in StartOutcomes
    /\ UnitReturn(c, "start", out, StartResult(c, out))
    /\ UNCHANGED <<nbdVars, pollVars, osdVars, logVars, credVars, confVars, monVars>>

\* Dashboard.Start: "mgr module enable" ended well, "config set" is started.
DashStartSecond ==
    /\ state["dashboard"] = "Running" /\ cmd["dashboard"] = "running"
    /\ IF ctxDone
       THEN UnitReturn("dashboard", "start", "ctxErr",
                       WrapErr("dashboard", "start", "ctxErr"))
       ELSE Step("dashboard", "Running", "running2")
    /\ UNCHANGED <<nbdVars, pollVars, osdVars, logVars, credVars, confVars, monVars>>

\* Dashboard.Start: a command fails, or the second one ends well.
DashStartFinish(out) ==
    /\ state["dashboard"] = "Running"
    /\ out \in CmdOutcomes
    /\ \/ cmd["dashboard"] = "running" /\ out # "exit0"
       \/ cmd["dashboard"] = "running2"
    /\ UnitReturn("dashboard", "start", out, StartResult("dashboard", out))
    /\ UNCHANGED <<nbdVars, pollVars, osdVars, logVars, credVars, confVars, monVars>>

(***************************************************************************)
(* The supervisor's specification                                          *)
(***************************************************************************)

InitSup ==
    /\ mainPc = "writeConf"
    /\ launched = 0
    /\ ctxDone = FALSE
    /\ signalled = FALSE
    /\ gErr = NoErr
    /\ state = [c \in Comps |-> "Unconfigured"]
    /\ cmd = [c \in Comps |-> "none"]
    /\ ended = [c \in Comps |-> "-"]
    /\ firstFault = NoErr
    /\ exitCode = -1
    /\ logged = NoErr
    /\ fwd = [c \in Comps |-> FALSE]

\* The allocator and the poll at rest, for the specifications that do not run them.
RestNbd ==
    /\ sysBlock = <<>>
    /\ nfPc = <<>> /\ nfDevices = <<>> /\ nfIdx = <<>> /\ nfAvail = <<>>
    /\ nfSeen = <<>> /\ nfPath = <<>> /\ nfErr = <<>>

\* No output yet: the query command has not written its answer.
NoOutput == [exit |-> -1, json |-> FALSE, always_on |-> <<>>, enabled |-> <<>>,
             disabled |-> <<>>]

RestPoll ==
    /\ now = 0 /\ readyAt = 0 /\ stubKind = "enabled" /\ parentDone = FALSE
    /\ pollPc = "done" /\ qElapsed = 0 /\ qSample = NoOutput
    /\ pollErr = "" /\ pollMsg = <<>>

RestOsd ==
    /\ cdPc = "done" /\ cdCtxDone = FALSE /\ cdModprobe = "-" /\ cdStat = "-"
    /\ cdSetup = "-" /\ cdPath = <<>> /\ cdAttached = <<>> /\ cdErr = ""
    /\ cdLog = <<>>

RestLog ==
    /\ lgUnit = <<>> /\ lgTask = <<>> /\ lgSrc = <<>> /\ lgPos = <<>>
    /\ lgSink = <<>> /\ lgReported = {} /\ lgErr = "-"

RestCred ==
    /\ crWho = "-" /\ crNow = 0 /\ crPc = "done" /\ crParentDone = FALSE
    /\ crCmd = "none" /\ crErr = ""

RestConf ==
    /\ cfPc = "exited" /\ cfFsid = "none" /\ cfGen = 0 /\ cfFile = "none"
    /\ cfMonFsid = "none" /\ cfLaunched = 0 /\ cfUnit = <<>>

RestMon ==
    /\ mnPc = "done" /\ mnRun = 0 /\ mnFiles = <<>> /\ mnGen = 0 /\ mnPre = <<>>
    /\ mnLog = <<>> /\ mnErr = ""

Init ==
    /\ InitSup /\ RestNbd /\ RestPoll /\ RestOsd /\ RestLog /\ RestCred /\ RestConf
    /\ RestMon

Next ==
    \/ WriteConfOk
    \/ WriteConfFail
    \/ Launch
    \/ Signal
    \/ Wait
    \/ \E c \in Comps : ConfigureCall(c)
    \/ \E c \in Comps : ConfigureFsFail(c)
    \/ DashLoopHead
    \/ \E c \in Comps : ConfigureExec(c)
    \/ \E c \in Comps, out \in {"exit0", "exit1", "killedCtx"} : ConfigureFinish(c, out)
    \/ \E out \in {"exit0", "exit1", "killedCtx", "parse", "absent"} : DashQueryFinish(out)
    \/ \E c \in Comps : StartCall(c)
    \/ \E c \in Comps : StartExec(c)
    \/ \E c \in Comps : StartLaunchFail(c)
    \/ \E c \in Comps, out \in {"exit0", "exit1", "killedCtx", "killedExt"} : StartFinish(c, out)
    \/ DashStartSecond
    \/ \E out \in {"exit0", "exit1", "killedCtx"} : DashStartFinish(out)

Spec == Init /\ [][Next]_vars

(***************************************************************************)
(* Claims about the supervisor (checked under Spec)                        *)
(***************************************************************************)

AllLaunched == launched = Len(Order)

\* C1: first-error-wins. Once some component has returned an error that
\* cancellation did not cause, the shared context is cancelled, and the error
\* g.Wait returns is the first such error, whatever the peers return later.
C1_FirstFaultIsReturned ==
    /\ firstFault # NoErr => ctxDone
    /\ (mainPc = "exited" /\ firstFault # NoErr) => gErr = firstFault

\* C2: cancellation is not failure. A daemon whose process was killed because
\* the shared context was cancelled while Start was blocked on it returned nil
\* from Start: it is Stopped, and its return put no error into the group.
C2_CancelledDaemonIsStopped ==
    \A c \in Daemons :
        ended[c] = "killedCtx" => state[c] = "Stopped" /\ gErr.comp # c

C2_Witness ==
    /\ state["mon"] = "Stopped" /\ ended["mon"] = "killedCtx"
    /\ state["osd"] = "Stopped" /\ ended["osd"] = "killedCtx"
    /\ signalled

\* C3: when a component's Configure fails (the first error of the run, no
\* signal involved), g.Wait returns that error and no peer ends in Failed
\* because of the cancellation that follows.
C3_PeersOfFailedConfigureStop ==
    (gErr # NoErr /\ gErr.phase = "configure" /\ gErr.cause = "fault" /\ ~signalled)
        => \A c \in Comps \ {gErr.comp} :
               ~(state[c] = "Failed" /\ ended[c] = "cancel")

\* C4: a SIGTERM or SIGINT is a voluntary shutdown. When the run ends after a
\* signal and no component failed for a reason other than cancellation, the
\* process exits with code zero and logs no failure.
C4_SignalExitsZero ==
    (mainPc = "exited" /\ signalled /\ firstFault = NoErr)
        => exitCode = 0 /\ logged = NoErr

\* C5: the exit code is non-zero exactly when ceph.conf could not be written
\* or a component failed for a reason other than cancellation, and then the
\* causing error was logged.
C5_ExitCode ==
    mainPc = "exited" =>
        /\ exitCode = 1 <=> (~AllLaunched \/ firstFault # NoErr)
        /\ exitCode = 1 => logged = (IF AllLaunched THEN firstFault ELSE ConfErr)

\* C6: at most one terminal state. A component that is Stopped or Failed stays
\* in that state in every further step.
C6_TerminalIsFinal ==
    [][\A c \in Comps : state[c] \in Terminal => state'[c] = state[c]]_vars

C6_Witness ==
    /\ state["mon"] = "Failed"
    /\ state["mgr"] = "Stopped"
    /\ mainPc = "exited"

\* C16: a daemon whose process exits with a non-zero status, cannot be
\* launched, or is killed from outside while the shared context is not
\* cancelled, ends in Failed, and its error cancels the shared context.
C16_AbnormalExitFails ==
    [][\A c \in Daemons :
          (/\ state[c] \in {"Starting", "Running"}
           /\ state'[c] \in Terminal
           /\ \/ ended'[c] \in {"exit1", "fault"}
              \/ ended'[c] = "killedExt" /\ ~ctxDone)
          => (state'[c] = "Failed" /\ ctxDone' /\ gErr' # NoErr)]_vars

\* C17: when g.Wait has returned, every component's unit has returned: no
\* component is Unconfigured, Configuring, Configured, Starting or Running.
C17_WaitJoinsAll ==
    (mainPc = "exited" /\ AllLaunched) => \A c \in Comps : state[c] \in Terminal

\* The monitor failed first; g.Wait returned after the peers, killed by the
\* cancellation, had returned too.
C17_Witness ==
    /\ mainPc = "exited"
    /\ gErr.comp = "mon"
    /\ ended["mgr"] = "killedCtx"
    /\ ended["rgw"] = "killedCtx"
    /\ \A c \in Comps : state[c] \in Terminal

\* C19: Start is invoked, and log forwarding started, only on a component
\* whose Configure has returned nil; a failing Configure makes the unit return
\* the wrapped error, and on that component Start is not invoked and log
\* forwarding is not started, then or later.
C19_StartOnlyAfterConfigure ==
    [][\A c \in Comps :
          /\ (state'[c] = "Starting" /\ state[c] # "Starting") => state[c] = "Configured"
          /\ (fwd'[c] /\ ~fwd[c]) => (state[c] = "Configured" /\ state'[c] = "Starting")
          /\ (state[c] = "Configuring" /\ state'[c] \in Terminal)
                => /\ state'[c] = "Failed"
                   /\ ~fwd'[c]
                   /\ gErr = NoErr => (gErr'.comp = c /\ gErr'.phase = "configure")
          /\ (state[c] = "Failed" /\ ~fwd[c])
                => (state'[c] = "Failed" /\ ~fwd'[c])]_vars

\* The manager's Configure failed: its unit returned that error, without
\* Start and without log forwarding, while the monitor went on to Running.
C19_Witness ==
    /\ state["mgr"] = "Failed"
    /\ ~fwd["mgr"]
    /\ gErr.comp = "mgr" /\ gErr.phase = "configure"
    /\ fwd["mon"]
    /\ mainPc = "exited"

\* Configure is invoked on c (first conjunct) or Start is (second).
Invokes(c) ==
    \/ state[c] = "Unconfigured" /\ state'[c] = "Configuring"
    \/ state[c] = "Configured" /\ state'[c] = "Starting"

\* The order of the lifecycle states.
Rank(st) ==
    CASE st = "Unconfigured" -> 0
      [] st = "Configuring"  -> 1
      [] st = "Configured"   -> 2
      [] st = "Starting"     -> 3
      [] st = "Running"      -> 4
      [] OTHER               -> 5

\* C20 (as stated): once a component has failed or the group is cancelled, no
\* step invokes Configure or Start on any component.
C20_NothingInvokedAfterCancel ==
    [][(ctxDone \/ \E d \in Comps : state[d] = "Failed")
          => \A c \in Comps : ~Invokes(c)]_vars

\* C20 (amended): a component's state only moves forward through the
\* lifecycle, so Configure and Start are each invoked at most once on it and
\* nothing is invoked on it after its unit returned.
C20_NoRestart ==
    [][\A c \in Comps :
          /\ state'[c] # state[c] => Rank(state'[c]) > Rank(state[c])
          /\ state[c] \in Terminal => ~Invokes(c)]_vars

\* After the monitor failed, the gateway's unit, not yet at Configure when the
\* group was cancelled, ran its Configure once and ended.
C20_Witness ==
    /\ gErr.comp = "mon"
    /\ state["mon"] = "Failed"
    /\ state["rgw"] = "Failed" /\ ended["rgw"] = "cancel" /\ ~fwd["rgw"]
    /\ mainPc = "exited"

\* C22: the supervisor orders nothing between components. Every unit is
\* launched before the join, and whether a launched unit can take its next
\* step (call Configure, issue Configure's command, call Start) depends on its
\* own component's state only, whatever the states of the others.
C22_NoOrderBetweenComponents ==
    /\ mainPc = "wait" => AllLaunched
    /\ \A c \in Comps :
           /\ (IsLaunched(c) /\ state[c] = "Unconfigured") => ENABLED ConfigureCall(c)
           /\ (state[c] = "Configuring" /\ cmd[c] = "none") => ENABLED ConfigureExec(c)
           /\ state[c] = "Configured" => ENABLED StartCall(c)

\* The manager's Configure has issued its credential request while the
\* monitor's Configure has not yet issued its own command.
C22_Witness ==
    /\ state["mgr"] = "Configuring" /\ cmd["mgr"] = "running"
    /\ state["mon"] = "Configuring" /\ cmd["mon"] = "none"

\* The gateway is running while the monitor has not been configured.
C22_WitnessStartFirst ==
    /\ state["rgw"] = "Running"
    /\ state["mon"] = "Unconfigured"

\* C26: Start has no timeout. A component leaves Running only when the
\* process Start waits on has ended by itself or by a signal from outside, or
\* when the shared context is cancelled.
C26_StartHasNoTimeout ==
    [][\A c \in Comps :
           (state[c] = "Running" /\ state'[c] # "Running")
               => (ended'[c] \in {"exit0", "exit1", "killedExt"} \/ ctxDone)]_vars

\* The manager is still running, uncancelled, after the monitor's and the
\* gateway's processes have come to their end.
C26_Witness ==
    /\ state["mgr"] = "Running"
    /\ ~ctxDone
    /\ state["mon"] = "Stopped" /\ state["rgw"] = "Stopped"

\* C28: a clean exit does not stop the group. The step by which a
\* component's unit returns nil leaves the shared context, the group's error,
\* the join and every other component as they were.
C28_CleanExitKeepsGroup ==
    [][\A c \in Comps :
           (state[c] # "Stopped" /\ state'[c] = "Stopped")
               => /\ ctxDone' = ctxDone
                  /\ gErr' = gErr
                  /\ mainPc' = mainPc
                  /\ \A d \in Comps \ {c} : state'[d] = state[d] /\ cmd'[d] = cmd[d]]_vars

\* The dashboard's Start has returned nil after its two commands; the context
\* is not cancelled, the monitor keeps running and main is in g.Wait.
C28_Witness ==
    /\ state["dashboard"] = "Stopped" /\ ended["dashboard"] = "exit0"
    /\ ~ctxDone
    /\ state["mon"] = "Running"
    /\ mainPc = "wait"


(***************************************************************************)
(* nbd.NextFreeDevice (internal/nbd): strings are sequences of characters  *)
(***************************************************************************)

MaxNbd == 3

\* strings.HasPrefix
HasPrefix(str, prefix) ==
    Len(str) >= Len(prefix) /\ SubSeq(str, 1, Len(prefix)) = prefix

NbdPrefix == <<"n", "b", "d">>

NbdName(i) == NbdPrefix \o <<ToString(i)>>

\* Directory order of /sys/block, as Readdirnames lists it.
AllNames == [i \in 1..(MaxNbd + 2) |->
                IF i = 1 THEN <<"s", "d", "a">>
                ELSE IF i = MaxNbd + 2 THEN <<"n", "v", "m", "e", "0">>
                ELSE NbdName(i - 2)]

\* filepath.Join("/dev/", name): one separator between the cleaned parts.
TrimSlash(str) ==
    IF Len(str) > 1 /\ str[Len(str)] = "/" THEN SubSeq(str, 1, Len(str) - 1) ELSE str

Join(dir, name) == TrimSlash(dir) \o <<"/">> \o name

DevDir == <<"/", "d", "e", "v", "/">>

\* Two storage daemons can be inside NextFreeDevice at once.
Callers == {"0", "1"}

\* The entries of the table, in directory order.
Listing == SelectSeq(AllNames, LAMBDA n : n \in DOMAIN sysBlock)

\* Whether ReadFile(/sys/block/<dev>/pid) failed with os.ErrNotExist.
IsNotExistOrUnreadable(marker) == marker # "present"

IsNotExist(marker) == marker = "absent"

\* The loop body's test (one mutant takes the devices whose pid file reads
\* well, the busy ones; the other also skips a device a call has handed out).
IsAvailableInverted(dev, marker) ==
    HasPrefix(dev, NbdPrefix) /\ marker = "present"

IsAvailableUnreserved(dev, marker) ==
    /\ HasPrefix(dev, NbdPrefix)
    /\ marker = "absent"
    /\ \A j \in DOMAIN nfPath : nfPath[j] # Join(DevDir, dev)

IsAvailable(dev, marker) ==
    HasPrefix(dev, NbdPrefix) /\ IsNotExist(marker)

\* The check before the random pick.
NoneFree(avail) == Len(avail) = 0

\* What the call returns when the check finds no free device (the mutant
\* falls back to the first device of the class).
NoDeviceFallback == [path |-> Join(DevDir, NbdName(0)), err |-> ""]

NoDevice == [path |-> <<>>, err |-> "no free nbd devices found"]

\* rand.Intn(len(availableNBDDevices)): the indices it can give (the mutant
\* always takes the first free device).
ChoicesFirstOnly(avail) == {1}

Choices(avail) == 1..Len(avail)

\* The device table after a call returned dev (the mutant marks the device
\* for the caller).
TableAfterCallReserved(t, dev) == [t EXCEPT ![dev] = "present"]

TableAfterCall(t, dev) == t

NfStep(k, pc, devices, idx, avail, seen, path, err) ==
    /\ nfPc' = [nfPc EXCEPT ![k] = pc]
    /\ nfDevices' = [nfDevices EXCEPT ![k] = devices]
    /\ nfIdx' = [nfIdx EXCEPT ![k] = idx]
    /\ nfAvail' = [nfAvail EXCEPT ![k] = avail]
    /\ nfSeen' = [nfSeen EXCEPT ![k] = seen]
    /\ nfPath' = [nfPath EXCEPT ![k] = path]
    /\ nfErr' = [nfErr EXCEPT ![k] = err]

\* os.Open and Readdirnames(-1).
NfReaddir(k) ==
    /\ nfPc[k] = "idle"
    /\ NfStep(k, "scan", Listing, 0, <<>>, nfSeen[k], nfPath[k], nfErr[k])
    /\ UNCHANGED sysBlock
    /\ UNCHANGED <<supVars, pollVars, osdVars, logVars, credVars, confVars, monVars>>

\* /sys/block cannot be opened or read.
NfReaddirFail(k) ==
    /\ nfPc[k] = "idle"
    /\ NfStep(k, "done", <<>>, 0, <<>>, nfSeen[k], <<>>, "could not read /sys/block")
    /\ UNCHANGED sysBlock
    /\ UNCHANGED <<supVars, pollVars, osdVars, logVars, credVars, confVars, monVars>>

\* One iteration of the loop over the names.
NfScan(k) ==
    /\ nfPc[k] = "scan"
    /\ nfIdx[k] < Len(nfDevices[k])
    /\ LET dev == nfDevices[k][nfIdx[k] + 1]
           marker == sysBlock[dev]
       IN NfStep(k, "scan", nfDevices[k], nfIdx[k] + 1,
                 IF IsAvailable(dev, marker) THEN Append(nfAvail[k], dev)
                 ELSE nfAvail[k],
                 IF HasPrefix(dev, NbdPrefix)
                 THEN [nfSeen[k] EXCEPT ![dev] = marker] ELSE nfSeen[k],
                 nfPath[k], nfErr[k])
    /\ UNCHANGED sysBlock
    /\ UNCHANGED <<supVars, pollVars, osdVars, logVars, credVars, confVars, monVars>>

\* The loop is over: the error, or a random element of availableNBDDevices.
NfPick(k) ==
    /\ nfPc[k] = "scan"
    /\ nfIdx[k] = Len(nfDevices[k])
    /\ IF NoneFree(nfAvail[k])
       THEN /\ NfStep(k, "done", nfDevices[k], nfIdx[k], nfAvail[k], nfSeen[k],
                      NoDevice.path, NoDevice.err)
            /\ UNCHANGED sysBlock
       ELSE \E i \in Choices(nfAvail[k]) :
                /\ NfStep(k, "done", nfDevices[k], nfIdx[k], nfAvail[k], nfSeen[k],
                          Join(DevDir, nfAvail[k][i]), "")
                /\ sysBlock' = TableAfterCall(sysBlock, nfAvail[k][i])
    /\ UNCHANGED <<supVars, pollVars, osdVars, logVars, credVars, confVars, monVars>>

\* Some process attaches an image to a free nbd device (its pid file appears).
Connect(dev) ==
    /\ dev \in DOMAIN sysBlock
    /\ HasPrefix(dev, NbdPrefix)
    /\ sysBlock[dev] = "absent"
    /\ sysBlock' = [sysBlock EXCEPT ![dev] = "present"]
    /\ UNCHANGED <<nfPc, nfDevices, nfIdx, nfAvail, nfSeen, nfPath, nfErr>>
    /\ UNCHANGED <<supVars, pollVars, osdVars, logVars, credVars, confVars, monVars>>

\* Some process detaches an nbd device (its pid file disappears).
Disconnect(dev) ==
    /\ dev \in DOMAIN sysBlock
    /\ sysBlock[dev] = "present"
    /\ sysBlock' = [sysBlock EXCEPT ![dev] = "absent"]
    /\ UNCHANGED <<nfPc, nfDevices, nfIdx, nfAvail, nfSeen, nfPath, nfErr>>
    /\ UNCHANGED <<supVars, pollVars, osdVars, logVars, credVars, confVars, monVars>>

NameSet == {AllNames[i] : i \in 1..Len(AllNames)}

NbdNames == {n \in NameSet : HasPrefix(n, NbdPrefix)}

\* The tables a host can show: any set of entries; an nbd entry's pid file is
\* absent, present or unreadable, another device has none.
Tables ==
    UNION {[D -> {"absent", "present", "unreadable"}] : D \in SUBSET NameSet}

NbdStart ==
    /\ sysBlock \in {t \in Tables : \A n \in DOMAIN t : n \notin NbdNames => t[n] = "absent"}
    /\ nfPc = [k \in Callers |-> "idle"]
    /\ nfDevices = [k \in Callers |-> <<>>]
    /\ nfIdx = [k \in Callers |-> 0]
    /\ nfAvail = [k \in Callers |-> <<>>]
    /\ nfSeen = [k \in Callers |-> [n \in NbdNames |-> "unread"]]
    /\ nfPath = [k \in Callers |-> <<>>]
    /\ nfErr = [k \in Callers |-> ""]

RestSup ==
    /\ mainPc = "exited" /\ launched = 0 /\ ctxDone = FALSE /\ signalled = FALSE
    /\ gErr = NoErr /\ state = <<>> /\ cmd = <<>> /\ ended = <<>>
    /\ firstFault = NoErr /\ exitCode = -1 /\ logged = NoErr /\ fwd = <<>>

NextNbd ==
    \/ \E k \in Callers : NfReaddir(k)
    \/ \E k \in Callers : NfReaddirFail(k)
    \/ \E k \in Callers : NfScan(k)
    \/ \E k \in Callers : NfPick(k)
    \/ \E dev \in NameSet : Connect(dev)
    \/ \E dev \in NameSet : Disconnect(dev)

InitNbd ==
    /\ NbdStart /\ RestSup /\ RestPoll /\ RestOsd /\ RestLog /\ RestCred /\ RestConf
    /\ RestMon

SpecNbd == InitNbd /\ [][NextNbd]_vars

(***************************************************************************)
(* Claims about NextFreeDevice (checked under SpecNbd)                     *)
(***************************************************************************)

\* The nbd entries the finished call found without a pid file.
SeenFree(k) == {n \in NbdNames : nfSeen[k][n] = "absent"}

Returned(k) == nfPc[k] = "done" /\ nfErr[k] = ""

\* C7: NextFreeDevice never returns the path of a device whose pid file was
\* present when the call read it, and when exactly one nbd device was without
\* a pid file it returns the path of that device.
C7_NeverReturnsBusy ==
    \A k \in Callers :
        /\ \A n \in NbdNames :
               (Returned(k) /\ nfPath[k] = DevDir \o n) => nfSeen[k][n] = "absent"
        /\ \A n \in NbdNames :
               (nfPc[k] = "done" /\ nfDevices[k] # <<>> /\ SeenFree(k) = {n})
                   => nfErr[k] = "" /\ nfPath[k] = DevDir \o n

\* {nbd0 busy, nbd1 free, nbd2 busy}: the call returned /dev/nbd1.
C7_Witness ==
    /\ nfPc["0"] = "done"
    /\ nfSeen["0"][NbdName(0)] = "present"
    /\ nfSeen["0"][NbdName(1)] = "absent"
    /\ nfSeen["0"][NbdName(2)] = "present"
    /\ nfPath["0"] = <<"/", "d", "e", "v", "/", "n", "b", "d", "1">>

\* C8: when the call found no nbd device without a pid file (all of them
\* carry one, or the table has no nbd entry), it returns the error
\* "no free nbd devices found" and the empty path.
C8_NoDeviceAvailable ==
    \A k \in Callers :
        (nfPc[k] = "done" /\ nfErr[k] # "could not read /sys/block" /\ SeenFree(k) = {})
            => nfErr[k] = "no free nbd devices found" /\ nfPath[k] = <<>>

\* Every nbd entry of a table with three of them was busy.
C8_Witness ==
    /\ nfPc["0"] = "done"
    /\ \A i \in 0..2 : nfSeen["0"][NbdName(i)] = "present"
    /\ nfErr["0"] = "no free nbd devices found"

\* The table had no nbd entry at all.
C8_WitnessNoEntry ==
    /\ nfPc["0"] = "done"
    /\ nfDevices["0"] = <<<<"s", "d", "a">>>>
    /\ nfErr["0"] = "no free nbd devices found"

\* The free devices a call has collected so far.
Collected(k) == {nfAvail[k][i] : i \in 1..Len(nfAvail[k])}

\* C21: the allocator keeps no reservation: a device that one call has
\* already returned is still collected as free by another call that finds it
\* without a pid file, so two concurrent calls can return the same path.
C21_NoReservation ==
    \A j \in Callers : \A k \in Callers \ {j} : \A n \in NbdNames :
        (Returned(j) /\ nfPath[j] = DevDir \o n /\ nfSeen[k][n] = "absent")
            => n \in Collected(k)

\* Both calls returned the same device, which still has no pid file.
C21_Witness ==
    /\ Returned("0") /\ Returned("1")
    /\ nfPath["0"] = nfPath["1"]
    /\ \E n \in NbdNames : nfPath["0"] = DevDir \o n /\ sysBlock[n] = "absent"

\* C23: a call returns only the path of an nbd device it found without a pid
\* file, never the path of an entry without the nbd prefix, and when the loop
\* is over each device it found free can be the one returned.
C23_AnyFreeOnlyFree ==
    \A k \in Callers :
        /\ Returned(k) => \E n \in SeenFree(k) : nfPath[k] = DevDir \o n
        /\ \A n \in NameSet \ NbdNames : nfPath[k] # DevDir \o n
        /\ (nfPc[k] = "scan" /\ nfIdx[k] = Len(nfDevices[k]))
               => \A n \in SeenFree(k) :
                      ENABLED (NfPick(k) /\ nfPath'[k] = DevDir \o n)

\* Of several free devices the call returned one that is not the first.
C23_Witness ==
    /\ Returned("0")
    /\ Len(nfAvail["0"]) >= 2
    /\ nfPath["0"] = DevDir \o nfAvail["0"][Len(nfAvail["0"])]

\* C24: a step of NextFreeDevice leaves the device table as it was: every
\* entry and every pid-file marker, the returned device's included.
C24_CallChangesNothing ==
    [][(\E k \in Callers :
            <<nfPc[k], nfDevices[k], nfIdx[k], nfAvail[k], nfPath[k], nfErr[k]>>'
                # <<nfPc[k], nfDevices[k], nfIdx[k], nfAvail[k], nfPath[k], nfErr[k]>>)
        => sysBlock' = sysBlock]_vars

\* The call returned a device and the device is still without a pid file.
C24_Witness ==
    /\ Returned("0")
    /\ nfPc["1"] = "idle"
    /\ \E n \in NbdNames : nfPath["0"] = DevDir \o n /\ sysBlock[n] = "absent"

\* C34: a device whose pid file cannot be read for another reason than its
\* absence counts as busy: the call never returns it, and when the call found
\* nbd entries and every one of them was in that condition it returns the
\* error "no free nbd devices found".
C34_UnreadableIsBusy ==
    \A k \in Callers :
        /\ \A n \in NbdNames :
               nfSeen[k][n] = "unreadable" =>
                   (n \notin Collected(k) /\ nfPath[k] # DevDir \o n)
        /\ (/\ nfPc[k] = "done"
            /\ \E n \in NbdNames : nfSeen[k][n] = "unreadable"
            /\ \A n \in NbdNames : nfSeen[k][n] \in {"unread", "unreadable"})
               => (nfErr[k] = "no free nbd devices found" /\ nfPath[k] = <<>>)

\* The pid file of each of the three nbd devices was unreadable.
C34_Witness ==
    /\ nfPc["0"] = "done"
    /\ \A i \in 0..2 : nfSeen["0"][NbdName(i)] = "unreadable"
    /\ nfErr["0"] = "no free nbd devices found"

\* nbd0 was unreadable and nbd1 free: the call returned /dev/nbd1.
C34_WitnessOtherFree ==
    /\ Returned("0")
    /\ nfSeen["0"][NbdName(0)] = "unreadable"
    /\ nfSeen["0"][NbdName(1)] = "absent"
    /\ nfPath["0"] = DevDir \o NbdName(1)

(***************************************************************************)
(* Dashboard.Configure: the readiness poll (SpecPoll)                      *)
(***************************************************************************)

\* context.WithTimeout(ctx, 2*time.Minute), in seconds.
Timeout == 120

\* time.Sleep(time.Second), in seconds.
SleepInterval == 1

\* The longest a "ceph mgr module ls" run takes, in seconds.
MaxQueryDur == 2

\* The stub names the module from a second in 0..Timeout+MaxLate on.
MaxLate == 2

\* The lists of the JSON document in which a stub can name the module.
ListKinds == {"always_on", "enabled", "disabled"}

\* "fail": the command exits with status 1; "garbage": it prints something
\* json.Unmarshal rejects; "otherJson": it prints a JSON object without the
\* three keys, which json.Unmarshal accepts, leaving the lists empty.
StubKinds == ListKinds \cup {"fail", "garbage", "otherJson"}

\* A list of the document: its other modules, unless the key is missing.
Others(list) == IF stubKind = "otherJson" THEN <<>> ELSE list

WithModule(list, present) == IF present THEN Append(list, "dashboard") ELSE list

\* What "ceph mgr module ls --format=json" writes at second t.
StubOutput(t) ==
    LET present == t >= readyAt
    IN [exit      |-> IF stubKind = "fail" THEN 1 ELSE 0,
        json      |-> stubKind # "garbage",
        always_on |-> WithModule(Others(<<"balancer">>),
                                 present /\ stubKind = "always_on"),
        enabled   |-> WithModule(Others(<<"iostat">>), present /\ stubKind = "enabled"),
        disabled  |-> WithModule(Others(<<"telemetry">>),
                                 present /\ stubKind = "disabled")]

\* modules: the always-on, the enabled and the names of the disabled modules
\* (the mutant leaves the disabled modules out).
ModulesNotDisabled(out) == out.always_on \o out.enabled

Modules(out) == out.always_on \o out.enabled \o out.disabled

\* The test of cmd.CombinedOutput's error (the mutant ignores the exit status
\* and goes on with whatever the command printed).
QueryFailedIgnored(out) == FALSE

QueryFailed(out) == out.exit # 0

\* The test of json.Unmarshal's error (the mutant goes on with the empty
\* module list).
ParseFailedIgnored(out) == FALSE

ParseFailed(out) == ~out.json

\* The membership loop (the mutant looks at the enabled modules only).
LoadedEnabledOnly(out) ==
    \E i \in 1..Len(out.enabled) : out.enabled[i] = "dashboard"

Loaded(out) ==
    \E i \in 1..Len(Modules(out)) : Modules(out)[i] = "dashboard"

\* cephCtx.Done() is closed: the parent is cancelled or the deadline passed
\* (the mutant's cephCtx is the parent itself, without a deadline).
CephCtxDoneParentOnly == parentDone

CephCtxDone == parentDone \/ now >= Timeout

\* The clock is not followed beyond the latest second at which a step of
\* Configure can happen: a sleep that began after a query that began just
\* before the deadline.
ClockEnd == Timeout + MaxQueryDur + SleepInterval

\* cephCtx.Err().
CephCtxErr == IF parentDone THEN "ctxErr" ELSE "ctxDeadline"

\* Configure returns err.
PollReturn(kind, msg) ==
    /\ pollPc' = "done"
    /\ pollErr' = kind
    /\ pollMsg' = msg
    /\ qSample' = NoOutput
    /\ UNCHANGED <<now, readyAt, stubKind, parentDone, qElapsed>>

\* The select at the head of the loop.
PollLoopHead ==
    /\ pollPc = "head"
    /\ IF CephCtxDone
       THEN PollReturn("timedOut", ExecMsg("timedOut"))
       ELSE /\ pollPc' = "exec"
            /\ UNCHANGED <<now, readyAt, stubKind, parentDone, qElapsed, qSample,
                           pollErr, pollMsg>>
    /\ UNCHANGED <<supVars, nbdVars, osdVars, logVars, credVars, confVars, monVars>>

\* cmd.CombinedOutput starts the command; a context already done refuses it.
PollExec ==
    /\ pollPc = "exec"
    /\ IF CephCtxDone
       THEN PollReturn("list", ExecMsg(CephCtxErr))
       ELSE /\ pollPc' = "query"
            /\ qElapsed' = 0
            /\ qSample' = NoOutput
            /\ UNCHANGED <<now, readyAt, stubKind, parentDone, pollErr, pollMsg>>
    /\ UNCHANGED <<supVars, nbdVars, osdVars, logVars, credVars, confVars, monVars>>

\* A second passes while the command runs or while Configure sleeps.
PollTick ==
    /\ \/ pollPc = "query" /\ qElapsed < MaxQueryDur /\ ~CephCtxDone
       \/ pollPc = "sleep" /\ qElapsed < SleepInterval
    /\ now < ClockEnd
    /\ now' = now + 1
    /\ qElapsed' = qElapsed + 1
    /\ UNCHANGED <<readyAt, stubKind, parentDone, pollPc, qSample, pollErr, pollMsg>>
    /\ UNCHANGED <<supVars, nbdVars, osdVars, logVars, credVars, confVars, monVars>>

\* The running command reads the module list and writes its output.
PollQuerySample ==
    /\ pollPc = "query"
    /\ qSample = NoOutput
    /\ qSample' = StubOutput(now)
    /\ UNCHANGED <<now, readyAt, stubKind, parentDone, pollPc, qElapsed, pollErr,
                   pollMsg>>
    /\ UNCHANGED <<supVars, nbdVars, osdVars, logVars, credVars, confVars, monVars>>

\* The command exits by itself: exit status, json.Unmarshal, membership, sleep.
PollQueryReturn ==
    /\ pollPc = "query"
    /\ qSample # NoOutput
    /\ IF QueryFailed(qSample) THEN PollReturn("list", ExecMsg("exit1"))
       ELSE IF ParseFailed(qSample) THEN PollReturn("parse", ExecMsg("parse"))
       ELSE IF Loaded(qSample) THEN PollReturn("nil", <<>>)
       ELSE /\ pollPc' = "sleep"
            /\ qElapsed' = 0
            /\ qSample' = NoOutput
            /\ UNCHANGED <<now, readyAt, stubKind, parentDone, pollErr, pollMsg>>
    /\ UNCHANGED <<supVars, nbdVars, osdVars, logVars, credVars, confVars, monVars>>

\* cephCtx is done while the command runs: os/exec kills it.
PollQueryKilled ==
    /\ pollPc = "query"
    /\ CephCtxDone
    /\ PollReturn("list", ExecMsg("killedCtx"))
    /\ UNCHANGED <<supVars, nbdVars, osdVars, logVars, credVars, confVars, monVars>>

\* time.Sleep returns.
PollSleepDone ==
    /\ pollPc = "sleep"
    /\ qElapsed = SleepInterval
    /\ pollPc' = "head"
    /\ qElapsed' = 0
    /\ UNCHANGED <<now, readyAt, stubKind, parentDone, qSample, pollErr, pollMsg>>
    /\ UNCHANGED <<supVars, nbdVars, osdVars, logVars, credVars, confVars, monVars>>

\* The ctx passed to Configure is cancelled before the deadline.
PollCancelParent ==
    /\ pollPc # "done"
    /\ ~parentDone
    /\ now < Timeout
    /\ parentDone' = TRUE
    /\ UNCHANGED <<now, readyAt, stubKind, pollPc, qElapsed, qSample, pollErr, pollMsg>>
    /\ UNCHANGED <<supVars, nbdVars, osdVars, logVars, credVars, confVars, monVars>>

PollStart ==
    /\ now = 0
    /\ readyAt \in 0..(Timeout + MaxLate)
    /\ stubKind \in StubKinds
    /\ parentDone = FALSE
    /\ pollPc = "head"
    /\ qElapsed = 0
    /\ qSample = NoOutput
    /\ pollErr = ""
    /\ pollMsg = <<>>

NextPoll ==
    \/ PollLoopHead
    \/ PollExec
    \/ PollTick
    \/ PollQuerySample
    \/ PollQueryReturn
    \/ PollQueryKilled
    \/ PollSleepDone
    \/ PollCancelParent

InitPoll ==
    /\ PollStart /\ RestSup /\ RestNbd /\ RestOsd /\ RestLog /\ RestCred /\ RestConf
    /\ RestMon

SpecPoll == InitPoll /\ [][NextPoll]_vars

\* The goroutine keeps being scheduled, the clock keeps running and a query
\* command that can return does return.
SpecPollLive ==
    /\ InitPoll
    /\ [][NextPoll]_vars
    /\ WF_vars(PollLoopHead \/ PollExec \/ PollTick \/ PollQuerySample
                   \/ PollQueryReturn \/ PollQueryKilled \/ PollSleepDone)

(***************************************************************************)
(* Claims about the readiness poll (checked under SpecPoll)                *)
(***************************************************************************)

\* The stub of the claims: absent, then present from second readyAt on; the
\* command works and the caller's context stays alive.
StubAnswers == stubKind \in ListKinds /\ ~parentDone

\* C9 (as stated): when the stub reports the module absent for the first
\* readyAt seconds and present afterwards, and the deadline is greater than
\* readyAt, Configure returns nil.
C9_SucceedsBeforeDeadline ==
    (pollPc = "done" /\ StubAnswers /\ readyAt < Timeout) => pollErr = "nil"

\* C9 (amended): Configure returns nil when the deadline leaves room after
\* readyAt for the query in flight, one sleep and one more query, that is
\* when readyAt + 2 * MaxQueryDur + SleepInterval <= Timeout.
C9_SucceedsWithSlack ==
    (pollPc = "done" /\ StubAnswers
        /\ readyAt + 2 * MaxQueryDur + SleepInterval <= Timeout)
    => pollErr = "nil"

\* The module appeared at the last second the amended claim covers, after
\* queries that found it absent, and Configure returned nil.
C9_Witness ==
    /\ pollPc = "done"
    /\ StubAnswers
    /\ readyAt = Timeout - 2 * MaxQueryDur - SleepInterval
    /\ now = Timeout - 1
    /\ pollErr = "nil"

\* C10: when the deadline expires before the module appears, Configure fails
\* with "timed out waiting for dashboard module to load" and with no other
\* error, wherever in the loop the deadline fires.
C10_OnlyTimeoutOnExpiry ==
    (pollPc = "done" /\ StubAnswers /\ readyAt > Timeout) => pollErr = "timedOut"

\* C11: when the query command fails, Configure returns the "could not list
\* mgr modules" error at once: the step that ends a failing query ends the
\* poll, no time passes in it, and nothing follows the return.
C11_QueryFailureIsImmediate ==
    [][/\ (stubKind = "fail" /\ pollPc = "query" /\ pollPc' # "query")
            => (pollPc' = "done" /\ pollErr' = "list" /\ now' = now)
       /\ pollPc = "done" => (pollPc' = "done" /\ pollErr' = pollErr /\ now' = now)]_vars

\* The first query exited with status 1 and the poll is over.
C11_Witness ==
    /\ pollPc = "done"
    /\ stubKind = "fail"
    /\ ~parentDone
    /\ pollErr = "list"
    /\ pollMsg = <<"exit", "status", "1">>
    /\ now <= MaxQueryDur

\* The target is named in one of the three lists of a query's output.
InUnion(out) ==
    "dashboard" \in {out.always_on[i] : i \in 1..Len(out.always_on)}
                    \cup {out.enabled[i] : i \in 1..Len(out.enabled)}
                    \cup {out.disabled[i] : i \in 1..Len(out.disabled)}

\* The query answered with a JSON document and was not killed.
Answered == pollPc = "query" /\ qSample # NoOutput /\ qSample.exit = 0 /\ qSample.json

\* C12: Configure returns nil exactly when a query's output names the target
\* in the always-on, the enabled or the disabled list, and then at once; when
\* none of the lists names it, Configure sleeps one interval and goes back to
\* the head of the loop.
C12_SucceedsOnUnion ==
    [][/\ (pollErr' = "nil" /\ pollErr # "nil") => (Answered /\ InUnion(qSample))
       /\ (Answered /\ pollPc' # "query" /\ ~CephCtxDone)
            => IF InUnion(qSample)
               THEN pollPc' = "done" /\ pollErr' = "nil" /\ now' = now
               ELSE pollPc' = "sleep" /\ qElapsed' = 0
       /\ (pollPc = "sleep" /\ pollPc' # "sleep")
            => (qElapsed = SleepInterval /\ pollPc' = "head")]_vars

\* The first query lists the target among the disabled modules only: the poll
\* succeeds before any sleep.
C12_Witness ==
    /\ pollPc = "done"
    /\ stubKind = "disabled"
    /\ readyAt = 0
    /\ now = 0
    /\ pollErr = "nil"

\* C29: the readiness poll always terminates. Configure returns in every
\* run in which its query commands return; at a loop head where cephCtx is
\* done (deadline passed or parent cancelled) it returns, both times with the
\* "timed out" error; and a sleep is left only when its second is over, a
\* cancellation that arrived meanwhile being seen at the next loop head.
C29_PollTerminates ==
    /\ <>(pollPc = "done")
    /\ [][(pollPc = "head" /\ CephCtxDone /\ pollPc' # "head")
              => (pollPc' = "done" /\ pollErr' = "timedOut")]_vars
    /\ [][(pollPc = "sleep" /\ pollPc' # "sleep")
              => (qElapsed = SleepInterval /\ pollPc' = "head")]_vars

\* The parent was cancelled before the deadline, after at least one sleep,
\* and Configure returned the "timed out" error.
C29_Witness ==
    /\ pollPc = "done"
    /\ parentDone /\ now < Timeout /\ now >= SleepInterval
    /\ pollErr = "timedOut"

\* C32: when the query command succeeds but its output is not the JSON
\* module list, Configure returns the "could not parse mgr modules" error at
\* once: the step by which such a query ends is the end of the poll (with the
\* parse error, or with the killed command's error when cephCtx was done), no
\* time passes in it, and the poll neither sleeps to retry nor succeeds.
C32_ParseFailureIsImmediate ==
    /\ [](stubKind = "garbage" => (pollPc # "sleep" /\ pollErr # "nil"))
    /\ [][(stubKind = "garbage" /\ pollPc = "query" /\ pollPc' # "query")
              => /\ pollPc' = "done"
                 /\ now' = now
                 /\ pollErr' = "parse" \/ (CephCtxDone /\ pollErr' = "list")]_vars
    /\ [][(stubKind = "garbage" /\ pollPc = "query" /\ pollPc' # "query"
              /\ ~CephCtxDone) => pollErr' = "parse"]_vars

\* The first query printed something else than JSON and the poll is over
\* with the parse error.
C32_Witness ==
    /\ pollPc = "done"
    /\ stubKind = "garbage"
    /\ ~parentDone
    /\ pollErr = "parse"
    /\ now <= MaxQueryDur

(***************************************************************************)
(* OSD.createDevice: nbd.Setup, NextFreeDevice, qemu-nbd (SpecOsd)         *)
(***************************************************************************)

\* The nbd module creates its devices nbd0, nbd1, ... in a row.
IsRow(t) ==
    \A i \in 1..(MaxNbd - 1) : NbdName(i) \in DOMAIN t => NbdName(i - 1) \in DOMAIN t

\* The table once the module is loaded: every device of the class is there.
LoadModule(t) ==
    [n \in (DOMAIN t) \cup NbdNames |-> IF n \in DOMAIN t THEN t[n] ELSE "absent"]

\* The name of the device a path in /dev stands for.
BaseName(path) == SubSeq(path, Len(DevDir) + 1, Len(path))

\* nbd.Setup's result (the mutant also wants modprobe to have succeeded).
SetupResultNeedsModprobe(modprobe, stat) ==
    IF modprobe = "ok" /\ stat = "exists" THEN "nil" ELSE "unsupported"

SetupResult(modprobe, stat) ==
    IF stat = "missing" THEN "unsupported" ELSE "nil"

\* The steps of OSD.Configure in program order: createDevice's, then
\* "ceph-volume lvm create".
Steps == <<"image", "setup", "pick", "attach", "pvcreate", "vgcreate", "lvcreate",
           "cephVolume">>

\* The error a failing step ends Configure with.
ErrOf(step) ==
    CASE step = "image"      -> "could not create qemu image"
      [] step = "setup"      -> "could not setup nbd"
      [] step = "pick"       -> "could not find free nbd device"
      [] step = "attach"     -> "could not mount qemu image"
      [] step = "pvcreate"   -> "could not create physical volume"
      [] step = "vgcreate"   -> "could not create volume group"
      [] step = "lvcreate"   -> "could not create logical volume"
      [] step = "cephVolume" -> "could not prepare OSD device"

\* The step that follows an LVM step ("done": Configure returns nil).
StepAfter(step) ==
    CASE step = "pvcreate"   -> "vgcreate"
      [] step = "vgcreate"   -> "lvcreate"
      [] step = "lvcreate"   -> "cephVolume"
      [] step = "cephVolume" -> "done"

\* History: step ran with result res.
Ran(step, res) == cdLog' = Append(cdLog, <<step, res>>)

\* createDevice returns err; Configure returns it wrapped.
CdReturn(err) ==
    /\ cdPc' = "done"
    /\ cdErr' = err

\* dmsetup remove (its error is dropped), RemoveAll, MkdirAll, qemu-img create.
CdPrepare ==
    /\ cdPc = "prepare"
    /\ \/ /\ ~cdCtxDone
          /\ cdPc' = "modprobe"
          /\ Ran("image", "ok")
          /\ UNCHANGED cdErr
       \/ CdReturn(ErrOf("image")) /\ Ran("image", "failed")
    /\ UNCHANGED <<cdCtxDone, cdModprobe, cdStat, cdSetup, cdPath, cdAttached>>
    /\ UNCHANGED <<supVars, nbdVars, pollVars, logVars, credVars, confVars, monVars>>

\* Setup: "/sbin/modprobe nbd"; cmd.Run's error is dropped.
CdModprobe ==
    /\ cdPc = "modprobe"
    /\ \E r \in {"ok", "failed"} :
          /\ cdCtxDone => r = "failed"
          /\ cdModprobe' = r
          /\ sysBlock' = IF r = "ok" /\ DOMAIN sysBlock \cap NbdNames = {}
                         THEN LoadModule(sysBlock) ELSE sysBlock
    /\ cdPc' = "stat"
    /\ UNCHANGED <<cdCtxDone, cdStat, cdSetup, cdPath, cdAttached, cdErr, cdLog>>
    /\ UNCHANGED <<nfPc, nfDevices, nfIdx, nfAvail, nfSeen, nfPath, nfErr>>
    /\ UNCHANGED <<supVars, pollVars, logVars, credVars, confVars, monVars>>

\* Setup: os.Stat("/sys/block/nbd0"); on "unsupported" createDevice and
\* Configure return.
CdStat ==
    /\ cdPc = "stat"
    /\ LET stat == IF NbdName(0) \in DOMAIN sysBlock THEN "exists" ELSE "missing"
           res  == SetupResult(cdModprobe, stat)
       IN /\ cdStat' = stat
          /\ cdSetup' = res
          /\ IF res = "nil"
             THEN cdPc' = "pick" /\ Ran("setup", "ok") /\ UNCHANGED cdErr
             ELSE CdReturn(ErrOf("setup")) /\ Ran("setup", "failed")
    /\ UNCHANGED <<cdCtxDone, cdModprobe, cdPath, cdAttached>>
    /\ UNCHANGED <<supVars, nbdVars, pollVars, logVars, credVars, confVars, monVars>>

\* nbd.NextFreeDevice runs.
CdNextFree ==
    /\ cdPc = "pick"
    /\ \/ NfReaddir("0")
       \/ NfReaddirFail("0")
       \/ NfScan("0")
       \/ NfPick("0")

\* NextFreeDevice returned.
CdPicked ==
    /\ cdPc = "pick"
    /\ nfPc["0"] = "done"
    /\ IF nfErr["0"] # ""
       THEN CdReturn(ErrOf("pick")) /\ Ran("pick", "failed") /\ UNCHANGED cdPath
       ELSE /\ cdPc' = "attach" /\ cdPath' = nfPath["0"]
            /\ Ran("pick", "ok") /\ UNCHANGED cdErr
    /\ UNCHANGED <<cdCtxDone, cdModprobe, cdStat, cdSetup, cdAttached>>
    /\ UNCHANGED <<supVars, nbdVars, pollVars, logVars, credVars, confVars, monVars>>

\* qemu-nbd --connect=<nbdDevicePath>: it fails on a device taken meanwhile.
CdAttach ==
    /\ cdPc = "attach"
    /\ LET dev == BaseName(cdPath)
       IN IF cdCtxDone
          THEN /\ CdReturn(ErrOf("attach"))
               /\ Ran("attach", "failed")
               /\ UNCHANGED <<cdAttached, sysBlock>>
          ELSE /\ cdAttached' = cdPath
               /\ IF dev \in DOMAIN sysBlock /\ sysBlock[dev] = "absent"
                  THEN /\ sysBlock' = [sysBlock EXCEPT ![dev] = "present"]
                       /\ cdPc' = "pvcreate"
                       /\ Ran("attach", "ok")
                       /\ UNCHANGED cdErr
                  ELSE /\ CdReturn(ErrOf("attach"))
                       /\ Ran("attach", "failed")
                       /\ UNCHANGED sysBlock
    /\ UNCHANGED <<cdCtxDone, cdModprobe, cdStat, cdSetup, cdPath>>
    /\ UNCHANGED <<nfPc, nfDevices, nfIdx, nfAvail, nfSeen, nfPath, nfErr>>
    /\ UNCHANGED <<supVars, pollVars, logVars, credVars, confVars, monVars>>

\* The device table after a step that follows the attach has failed:
\* Configure returns the error and undoes nothing (the mutant detaches the
\* device again).
TableAfterFailureDetached(t, dev) == [t EXCEPT ![dev] = "absent"]

TableAfterFailure(t, dev) == t

\* pvcreate, vgcreate, lvcreate and, back in Configure, "ceph-volume lvm
\* create": each runs when the one before it ended well.
CdLvm(step) ==
    /\ cdPc = step
    /\ \/ /\ ~cdCtxDone
          /\ Ran(step, "ok")
          /\ IF StepAfter(step) = "done"
             THEN CdReturn("nil")
             ELSE cdPc' = StepAfter(step) /\ UNCHANGED cdErr
          /\ UNCHANGED sysBlock
       \/ /\ Ran(step, "failed")
          /\ CdReturn(ErrOf(step))
          /\ sysBlock' = TableAfterFailure(sysBlock, BaseName(cdPath))
    /\ UNCHANGED <<cdCtxDone, cdModprobe, cdStat, cdSetup, cdPath, cdAttached>>
    /\ UNCHANGED <<nfPc, nfDevices, nfIdx, nfAvail, nfSeen, nfPath, nfErr>>
    /\ UNCHANGED <<supVars, pollVars, logVars, credVars, confVars, monVars>>

\* The ctx passed to Configure is cancelled.
CdCancel ==
    /\ cdPc # "done"
    /\ ~cdCtxDone
    /\ cdCtxDone' = TRUE
    /\ UNCHANGED <<cdPc, cdModprobe, cdStat, cdSetup, cdPath, cdAttached, cdErr,
                   cdLog>>
    /\ UNCHANGED <<supVars, nbdVars, pollVars, logVars, credVars, confVars, monVars>>

OsdStart ==
    /\ sysBlock \in {t \in Tables :
                        /\ IsRow(t)
                        /\ \A n \in DOMAIN t : t[n] # "unreadable"
                        /\ \A n \in DOMAIN t : n \notin NbdNames => t[n] = "absent"}
    /\ nfPc = [k \in Callers |-> "idle"]
    /\ nfDevices = [k \in Callers |-> <<>>]
    /\ nfIdx = [k \in Callers |-> 0]
    /\ nfAvail = [k \in Callers |-> <<>>]
    /\ nfSeen = [k \in Callers |-> [n \in NbdNames |-> "unread"]]
    /\ nfPath = [k \in Callers |-> <<>>]
    /\ nfErr = [k \in Callers |-> ""]
    /\ cdPc = "prepare"
    /\ cdCtxDone = FALSE
    /\ cdModprobe = "-"
    /\ cdStat = "-"
    /\ cdSetup = "-"
    /\ cdPath = <<>>
    /\ cdAttached = <<>>
    /\ cdErr = ""
    /\ cdLog = <<>>

NextOsd ==
    \/ CdPrepare
    \/ CdModprobe
    \/ CdStat
    \/ CdNextFree
    \/ CdPicked
    \/ CdAttach
    \/ \E step \in {"pvcreate", "vgcreate", "lvcreate", "cephVolume"} : CdLvm(step)
    \/ CdCancel
    \/ \E dev \in NameSet : Connect(dev)
    \/ \E dev \in NameSet : Disconnect(dev)

InitOsd == OsdStart /\ RestSup /\ RestPoll /\ RestLog /\ RestCred /\ RestConf /\ RestMon

SpecOsd == InitOsd /\ [][NextOsd]_vars

(***************************************************************************)
(* Claims about nbd.Setup (checked under SpecOsd)                          *)
(***************************************************************************)

\* C18: Setup's result does not depend on how modprobe ended: it is nil when
\* /sys/block/nbd0 exists and the "unsupported" error when it does not; after
\* that error createDevice has returned it, NextFreeDevice was never called
\* and qemu-nbd --connect was never run.
C18_SetupOnlyChecksTable ==
    /\ cdSetup # "-" => (cdSetup = "nil" <=> cdStat = "exists")
    /\ cdSetup = "unsupported" =>
          /\ cdPc = "done"
          /\ cdErr = "could not setup nbd"
          /\ nfPc["0"] = "idle"
          /\ cdPath = <<>>
          /\ cdAttached = <<>>

\* The module could not be loaded and the table has no nbd0: Configure is over.
C18_Witness ==
    /\ cdModprobe = "failed"
    /\ cdSetup = "unsupported"
    /\ cdPc = "done"
    /\ ~cdCtxDone

\* modprobe failed but the class was there (built in): the image is attached.
C18_WitnessLoadFailureIgnored ==
    /\ cdModprobe = "failed"
    /\ cdSetup = "nil"
    /\ cdAttached # <<>>
    /\ cdErr = "nil"

\* The attach step has run and ended well.
AttachedOk == \E i \in 1..Len(cdLog) : cdLog[i] = <<"attach", "ok">>

\* C30: OSD provisioning is a strict sequence without rollback. The steps
\* that ran are the first ones of the program order, each after all earlier
\* ones ended well; the first failing step ends Configure with its error and
\* Configure returns nil only when all of them ended well; and once the
\* attach has succeeded no later step of Configure, failing or not, changes
\* the device table: the device stays attached and marked in use.
C30_StrictSequenceNoRollback ==
    /\ [](/\ Len(cdLog) <= Len(Steps)
          /\ \A i \in 1..Len(cdLog) :
                 /\ cdLog[i][1] = Steps[i]
                 /\ i < Len(cdLog) => cdLog[i][2] = "ok"
          /\ \A i \in 1..Len(cdLog) :
                 cdLog[i][2] = "failed" => cdPc = "done" /\ cdErr = ErrOf(cdLog[i][1])
          /\ cdErr = "nil" <=>
                 (Len(cdLog) = Len(Steps) /\ cdLog[Len(Steps)][2] = "ok"))
    /\ [][(AttachedOk /\ cdLog' # cdLog) => sysBlock' = sysBlock]_vars

\* vgcreate failed after the attach: Configure is over with its error and the
\* device is still attached and marked in use.
C30_Witness ==
    /\ cdPc = "done"
    /\ cdErr = "could not create volume group"
    /\ cdLog = <<<<"image", "ok">>, <<"setup", "ok">>, <<"pick", "ok">>,
                 <<"attach", "ok">>, <<"pvcreate", "ok">>, <<"vgcreate", "failed">>>>
    /\ sysBlock[BaseName(cdPath)] = "present"

(***************************************************************************)
(* Log forwarding (SpecLog): one forwarding task per component, started by *)
(* its unit of work once Configure has returned nil                        *)
(***************************************************************************)

\* The longest a log file gets.
MaxLines == 2

\* The components whose units run in SpecLog.
LogUnits == {"mon", "mgr", "dashboard"}

\* The text of the n-th line a daemon writes.
LineText(d, n) == <<d, "line", n>>

\* The file Logs() tails (the mutant tails the monitor's file for everyone).
LogFileOfMonitor(c) == "/var/log/ceph/ceph-mon.log"

LogFile(c) ==
    CASE c = "mon"  -> "/var/log/ceph/ceph-mon.log"
      [] c = "mgr"  -> "/var/log/ceph/ceph-mgr.log"
      [] c = "osd"  -> "/var/log/ceph/ceph-osd.log"
      [] c = "rgw"  -> "/var/log/ceph/ceph-client.radosgw.gateway.log"
      [] OTHER      -> "/dev/null"

\* The file a daemon writes its log to (/var/log/ceph/$cluster-$name.log).
DaemonLogFile(d) ==
    CASE d = "mon"  -> "/var/log/ceph/ceph-mon.log"
      [] d = "mgr"  -> "/var/log/ceph/ceph-mgr.log"
      [] d = "osd"  -> "/var/log/ceph/ceph-osd.log"
      [] OTHER      -> "/var/log/ceph/ceph-client.radosgw.gateway.log"

LogFiles == {DaemonLogFile(d) : d \in Daemons} \cup {"/dev/null"}

\* The sink takes one record at a time, after the ones it has (the mutant
\* puts the new record in front).
EmitFirst(sink, rec) == <<rec>> \o sink

Emit(sink, rec) == Append(sink, rec)

\* What a failing Logs() does to the unit of work (the mutant makes the unit
\* return the error).
AfterOpenFailureAbort(u) == "aborted"

AfterOpenFailure(u) == u

\* The first unit that returned an error cancels the group.
LgFirstErr(c, phase) == IF lgErr = "-" THEN <<c, phase>> ELSE lgErr

\* Configure returns: nil (the forwarding task is started, Start comes next)
\* or an error (the unit returns it).
LgConfigure(c) ==
    /\ lgUnit[c] = "configuring"
    /\ \/ /\ lgUnit' = [lgUnit EXCEPT ![c] = "configured"]
          /\ lgTask' = [lgTask EXCEPT ![c] = "spawned"]
          /\ UNCHANGED lgErr
       \/ /\ lgUnit' = [lgUnit EXCEPT ![c] = "failed"]
          /\ lgErr' = LgFirstErr(c, "configure")
          /\ UNCHANGED lgTask
    /\ UNCHANGED <<lgSrc, lgPos, lgSink, lgReported>>
    /\ UNCHANGED <<supVars, nbdVars, pollVars, osdVars, credVars, confVars, monVars>>

\* The task calls Logs(): tail.TailFile opens the file or fails; the failure
\* is reported and the task ends.
LgOpen(c) ==
    /\ lgTask[c] = "spawned"
    /\ \/ /\ lgTask' = [lgTask EXCEPT ![c] = "tailing"]
          /\ UNCHANGED <<lgUnit, lgReported, lgErr>>
       \/ /\ lgTask' = [lgTask EXCEPT ![c] = "openFailed"]
          /\ lgReported' = lgReported \cup {c}
          /\ lgUnit' = [lgUnit EXCEPT ![c] = AfterOpenFailure(lgUnit[c])]
          /\ lgErr' = IF AfterOpenFailure(lgUnit[c]) = "aborted"
                      THEN LgFirstErr(c, "logs") ELSE lgErr
    /\ UNCHANGED <<lgSrc, lgPos, lgSink>>
    /\ UNCHANGED <<supVars, nbdVars, pollVars, osdVars, credVars, confVars, monVars>>

\* The unit calls Start.
LgStart(c) ==
    /\ lgUnit[c] = "configured"
    /\ lgUnit' = [lgUnit EXCEPT ![c] = "starting"]
    /\ UNCHANGED <<lgTask, lgSrc, lgPos, lgSink, lgReported, lgErr>>
    /\ UNCHANGED <<supVars, nbdVars, pollVars, osdVars, credVars, confVars, monVars>>

\* Start returns: nil or an error.
LgStartReturn(c) ==
    /\ lgUnit[c] = "starting"
    /\ \/ /\ lgUnit' = [lgUnit EXCEPT ![c] = "stopped"]
          /\ UNCHANGED lgErr
       \/ /\ lgUnit' = [lgUnit EXCEPT ![c] = "failed"]
          /\ lgErr' = LgFirstErr(c, "start")
    /\ UNCHANGED <<lgTask, lgSrc, lgPos, lgSink, lgReported>>
    /\ UNCHANGED <<supVars, nbdVars, pollVars, osdVars, credVars, confVars, monVars>>

\* A daemon appends a line to its log file.
LgWrite(d) ==
    /\ d \in Daemons
    /\ Len(lgSrc[DaemonLogFile(d)]) < MaxLines
    /\ lgSrc' = [lgSrc EXCEPT ![DaemonLogFile(d)] =
                    Append(@, [text |-> LineText(d, Len(@) + 1), owner |-> d])]
    /\ UNCHANGED <<lgUnit, lgTask, lgPos, lgSink, lgReported, lgErr>>
    /\ UNCHANGED <<supVars, nbdVars, pollVars, osdVars, credVars, confVars, monVars>>

\* The task takes the next line of its source and emits it, tagged with the
\* component's name, to the shared sink.
LgForward(c) ==
    /\ lgTask[c] = "tailing"
    /\ lgPos[c] < Len(lgSrc[LogFile(c)])
    /\ LET line == lgSrc[LogFile(c)][lgPos[c] + 1]
       IN lgSink' = Emit(lgSink, [tag |-> c, text |-> line.text,
                                  owner |-> line.owner, idx |-> lgPos[c] + 1])
    /\ lgPos' = [lgPos EXCEPT ![c] = @ + 1]
    /\ UNCHANGED <<lgUnit, lgTask, lgSrc, lgReported, lgErr>>
    /\ UNCHANGED <<supVars, nbdVars, pollVars, osdVars, credVars, confVars, monVars>>

\* The source is released (or the process ends): the task stops.
LgRelease(c) ==
    /\ lgTask[c] = "tailing"
    /\ lgTask' = [lgTask EXCEPT ![c] = "released"]
    /\ UNCHANGED <<lgUnit, lgSrc, lgPos, lgSink, lgReported, lgErr>>
    /\ UNCHANGED <<supVars, nbdVars, pollVars, osdVars, credVars, confVars, monVars>>

LogStart ==
    /\ lgUnit = [c \in LogUnits |-> "configuring"]
    /\ lgTask = [c \in LogUnits |-> "none"]
    /\ lgSrc = [f \in LogFiles |-> <<>>]
    /\ lgPos = [c \in LogUnits |-> 0]
    /\ lgSink = <<>>
    /\ lgReported = {}
    /\ lgErr = "-"

NextLog ==
    \/ \E c \in LogUnits : LgConfigure(c)
    \/ \E c \in LogUnits : LgOpen(c)
    \/ \E c \in LogUnits : LgStart(c)
    \/ \E c \in LogUnits : LgStartReturn(c)
    \/ \E d \in LogUnits : LgWrite(d)
    \/ \E c \in LogUnits : LgForward(c)
    \/ \E c \in LogUnits : LgRelease(c)

InitLog ==
    /\ LogStart /\ RestSup /\ RestNbd /\ RestPoll /\ RestOsd /\ RestCred /\ RestConf
    /\ RestMon

SpecLog == InitLog /\ [][NextLog]_vars

(***************************************************************************)
(* Claims about log forwarding (checked under SpecLog)                     *)
(***************************************************************************)

\* The records the sink holds for a component, in the sink's order.
Forwarded(c) == SelectSeq(lgSink, LAMBDA rec : rec.tag = c)

\* C13: the records the sink holds for one component are in the order in
\* which the component's source produced their lines, whatever the tasks of
\* the other components emitted in between.
C13_OrderPreserved ==
    \A i, j \in 1..Len(lgSink) :
        (i < j /\ lgSink[i].tag = lgSink[j].tag) => lgSink[i].idx < lgSink[j].idx

\* Two lines of the monitor reached the sink with a line of the manager
\* between them.
C13_Witness ==
    /\ Len(lgSink) >= 3
    /\ lgSink[1].tag = "mon" /\ lgSink[1].idx = 1
    /\ lgSink[2].tag = "mgr"
    /\ lgSink[3].tag = "mon" /\ lgSink[3].idx = 2

\* C14: the sink holds, for every component, exactly the lines its task has
\* read from the component's source, each once and with its text unchanged,
\* and every record carries the name of the component whose daemon wrote it.
C14_NoLineLostOrMerged ==
    /\ \A c \in LogUnits :
          /\ Len(Forwarded(c)) = lgPos[c]
          /\ \A i \in 1..Len(Forwarded(c)) :
                /\ Forwarded(c)[i].idx = i
                /\ i <= Len(lgSrc[DaemonLogFile(c)])
                /\ Forwarded(c)[i].text = lgSrc[DaemonLogFile(c)][i].text
    /\ \A i \in 1..Len(lgSink) : lgSink[i].tag = lgSink[i].owner

\* Both daemons wrote two lines and all four are in the sink.
C14_Witness ==
    /\ lgPos["mon"] = 2 /\ lgPos["mgr"] = 2
    /\ Len(lgSink) = 4
    /\ \E i \in 1..4 : lgSink[i].text = LineText("mon", 2)
    /\ \E i \in 1..4 : lgSink[i].text = LineText("mgr", 2)

\* C15: a component whose Logs() failed has the failure reported; its unit is
\* where it would be without the failure (about to invoke Start, which nothing
\* blocks, in Start, or returned from Start), and the error that cancels the
\* group is never the log failure.
C15_LogFailureIsNotFatal ==
    /\ \A c \in LogUnits :
          lgTask[c] = "openFailed" =>
              /\ c \in lgReported
              /\ lgUnit[c] \in {"configured", "starting", "stopped", "failed"}
              /\ lgUnit[c] = "configured" => ENABLED LgStart(c)
    /\ lgErr # "-" => lgErr[2] # "logs"

\* The monitor's Logs() failed; its Start runs, and so does the manager's.
C15_Witness ==
    /\ lgTask["mon"] = "openFailed"
    /\ "mon" \in lgReported
    /\ lgUnit["mon"] = "starting"
    /\ lgUnit["mgr"] = "starting"
    /\ lgErr = "-"

(***************************************************************************)
(* Configure's credential exchange: "ceph auth get-or-create" under        *)
(* context.WithTimeout (SpecCred)                                          *)
(***************************************************************************)

\* context.WithTimeout(ctx, 2*time.Minute) of Manager.Configure and
\* RADOSGW.Configure, in seconds.
CredTimeout == 120

\* context.WithTimeout(ctx, 30*time.Second) of cmd/main.go's configureManager
\* and configureRADOSGateway, in seconds.
InlineCredTimeout == 30

\* The functions that run the exchange: the components' Configure methods and
\* the functions of cmd/main.go.
CredMethods == {"mgr", "rgw"}
CredInline == {"mgrInline", "rgwInline"}

CredTimeoutOf(w) == IF w \in CredMethods THEN CredTimeout ELSE InlineCredTimeout

\* cephCtx.Done() is closed (the mutant runs the command under the ctx passed
\* to Configure, without a deadline).
CredCtxDoneParentOnly == crParentDone

CredCtxDone == crParentDone \/ crNow >= CredTimeoutOf(crWho)

\* Configure returns err.
CrReturn(err) ==
    /\ crPc' = "done"
    /\ crErr' = err

\* os.MkdirAll and os.Create of the keyring file.
CrFs ==
    /\ crPc = "fs"
    /\ \/ crPc' = "exec" /\ UNCHANGED crErr
       \/ CrReturn("could not create directory")
       \/ CrReturn("could not create keyring file")
    /\ UNCHANGED <<crWho, crNow, crParentDone, crCmd>>
    /\ UNCHANGED <<supVars, nbdVars, pollVars, osdVars, logVars, confVars, monVars>>

\* cmd.Run starts "ceph auth get-or-create"; a context already done refuses.
CrExec ==
    /\ crPc = "exec"
    /\ IF CredCtxDone
       THEN CrReturn("could not create keyring") /\ UNCHANGED crCmd
       ELSE crPc' = "run" /\ crCmd' = "running" /\ UNCHANGED crErr
    /\ UNCHANGED <<crWho, crNow, crParentDone>>
    /\ UNCHANGED <<supVars, nbdVars, pollVars, osdVars, logVars, confVars, monVars>>

\* A second passes while the command runs (the clock is not followed beyond
\* the second after the two minutes).
CrTick ==
    /\ crPc = "run"
    /\ ~CredCtxDone
    /\ crNow <= CredTimeout
    /\ crNow' = crNow + 1
    /\ UNCHANGED <<crWho, crPc, crParentDone, crCmd, crErr>>
    /\ UNCHANGED <<supVars, nbdVars, pollVars, osdVars, logVars, confVars, monVars>>

\* The command answers by itself.
CrCmdExit(out) ==
    /\ crPc = "run"
    /\ crCmd' = out
    /\ IF out = "exit0"
       THEN crPc' = "owner" /\ UNCHANGED crErr
       ELSE CrReturn("could not create keyring")
    /\ UNCHANGED <<crWho, crNow, crParentDone>>
    /\ UNCHANGED <<supVars, nbdVars, pollVars, osdVars, logVars, confVars, monVars>>

\* cephCtx is done while the command runs: os/exec kills it, cmd.Run returns
\* "signal: killed".
CrKill ==
    /\ crPc = "run"
    /\ CredCtxDone
    /\ crCmd' = "killed"
    /\ CrReturn("could not create keyring")
    /\ UNCHANGED <<crWho, crNow, crParentDone>>
    /\ UNCHANGED <<supVars, nbdVars, pollVars, osdVars, logVars, confVars, monVars>>

\* ceph.User and ChownRecursive.
CrOwner ==
    /\ crPc = "owner"
    /\ \/ CrReturn("nil")
       \/ CrReturn("could not get ceph user")
       \/ CrReturn("could not change owner")
    /\ UNCHANGED <<crWho, crNow, crParentDone, crCmd>>
    /\ UNCHANGED <<supVars, nbdVars, pollVars, osdVars, logVars, confVars, monVars>>

\* The ctx passed to Configure is cancelled.
CrCancelParent ==
    /\ crPc # "done"
    /\ ~crParentDone
    /\ crParentDone' = TRUE
    /\ UNCHANGED <<crWho, crNow, crPc, crCmd, crErr>>
    /\ UNCHANGED <<supVars, nbdVars, pollVars, osdVars, logVars, confVars, monVars>>

NextCred ==
    \/ CrFs
    \/ CrExec
    \/ CrTick
    \/ \E out \in {"exit0", "exit1"} : CrCmdExit(out)
    \/ CrKill
    \/ CrOwner
    \/ CrCancelParent

InitCred ==
    /\ crWho \in CredMethods \cup CredInline
    /\ crNow = 0
    /\ crPc = "fs"
    /\ crParentDone = FALSE
    /\ crCmd = "none"
    /\ crErr = ""
    /\ RestSup /\ RestNbd /\ RestPoll /\ RestOsd /\ RestLog /\ RestConf /\ RestMon

\* The goroutine keeps being scheduled, the clock keeps running and os/exec
\* kills the command of a context that is done; the command itself need not
\* ever answer.
SpecCred ==
    /\ InitCred
    /\ [][NextCred]_vars
    /\ WF_vars(CrFs \/ CrExec \/ CrTick \/ CrKill \/ CrOwner)

(***************************************************************************)
(* Claims about the credential exchange (checked under SpecCred)           *)
(***************************************************************************)

\* C25: the credential exchange is bounded by the two-minute timeout.
\* Configure always returns, also when the command never answers; the command
\* never runs beyond two minutes; a command that was killed (its deadline
\* passed, or the ctx passed to Configure was cancelled before) makes
\* Configure fail with "could not create keyring"; and Configure returns nil
\* only when the command answered with exit status 0.
C25_CredentialExchangeBounded ==
    /\ <>(crPc = "done")
    /\ [](crPc = "run" => crNow <= CredTimeout)
    /\ [](crCmd = "killed" =>
              /\ crPc = "done"
              /\ crErr = "could not create keyring"
              /\ crParentDone \/ crNow = CredTimeoutOf(crWho))
    /\ []((crPc = "done" /\ crErr = "nil") => crCmd = "exit0")

\* The manager's command never answered: after two minutes it was killed and
\* Configure failed, the ctx passed to Configure not being cancelled.
C25_Witness ==
    /\ crWho = "mgr"
    /\ crPc = "done"
    /\ crCmd = "killed"
    /\ ~crParentDone
    /\ crNow = CredTimeout
    /\ crErr = "could not create keyring"

\* The ctx passed to the gateway's Configure was cancelled while the command
\* ran: Configure failed before the two minutes were over.
C25_WitnessCancelled ==
    /\ crWho = "rgw"
    /\ crPc = "done"
    /\ crCmd = "killed"
    /\ crParentDone
    /\ crNow < CredTimeout

(***************************************************************************)
(* main: the cluster identity and ceph.conf (SpecConf)                     *)
(***************************************************************************)

\* The values uuid.New().String() can give.
Uuids == {"u1", "u2"}

\* The units of cmd/main.go, in the order of their g.Go calls.
ConfOrder == <<"mon", "mgr", "osd", "rgw">>

\* The fsid the monitor's Configure gives to monmaptool --fsid: main's (the
\* mutant's monitor generates an identity of its own).
MonFsidRegenerated(f) == CHOOSE u \in Uuids : u # f

MonFsid(f) == f

\* fsid := uuid.New().String()
CfGenerate ==
    /\ cfPc = "gen"
    /\ \E u \in Uuids : cfFsid' = u
    /\ cfGen' = cfGen + 1
    /\ cfPc' = "create"
    /\ UNCHANGED <<cfFile, cfMonFsid, cfLaunched, cfUnit>>
    /\ UNCHANGED <<supVars, nbdVars, pollVars, osdVars, logVars, credVars, monVars>>

\* main exits because WriteConfig returned an error.
CfExit == cfPc' = "exited"

\* WriteConfig: os.Create("/etc/ceph/ceph.conf").
CfCreate ==
    /\ cfPc = "create"
    /\ \/ cfPc' = "render" /\ cfFile' = "partial"
       \/ CfExit /\ UNCHANGED cfFile
    /\ UNCHANGED <<cfFsid, cfGen, cfMonFsid, cfLaunched, cfUnit>>
    /\ UNCHANGED <<supVars, nbdVars, pollVars, osdVars, logVars, credVars, monVars>>

\* WriteConfig: the template is parsed and executed with FSID: fsid.
CfRender ==
    /\ cfPc = "render"
    /\ \/ cfPc' = "owner" /\ cfFile' = cfFsid
       \/ CfExit /\ UNCHANGED cfFile
    /\ UNCHANGED <<cfFsid, cfGen, cfMonFsid, cfLaunched, cfUnit>>
    /\ UNCHANGED <<supVars, nbdVars, pollVars, osdVars, logVars, credVars, monVars>>

\* WriteConfig: User and os.Chown.
CfOwner ==
    /\ cfPc = "owner"
    /\ \/ cfPc' = "launch"
       \/ CfExit
    /\ UNCHANGED <<cfFsid, cfGen, cfFile, cfMonFsid, cfLaunched, cfUnit>>
    /\ UNCHANGED <<supVars, nbdVars, pollVars, osdVars, logVars, credVars, monVars>>

\* The next g.Go call.
CfLaunch ==
    /\ cfPc = "launch"
    /\ cfLaunched' = cfLaunched + 1
    /\ cfPc' = IF cfLaunched + 1 = Len(ConfOrder) THEN "wait" ELSE "launch"
    /\ UNCHANGED <<cfFsid, cfGen, cfFile, cfMonFsid, cfUnit>>
    /\ UNCHANGED <<supVars, nbdVars, pollVars, osdVars, logVars, credVars, monVars>>

\* A launched unit calls its Configure; the monitor's takes the fsid.
CfConfigure(c) ==
    /\ \E i \in 1..cfLaunched : ConfOrder[i] = c
    /\ cfUnit[c] = "idle"
    /\ cfUnit' = [cfUnit EXCEPT ![c] = "configuring"]
    /\ cfMonFsid' = IF c = "mon" THEN MonFsid(cfFsid) ELSE cfMonFsid
    /\ UNCHANGED <<cfPc, cfFsid, cfGen, cfFile, cfLaunched>>
    /\ UNCHANGED <<supVars, nbdVars, pollVars, osdVars, logVars, credVars, monVars>>

\* Configure returned nil and the unit starts its daemon.
CfStart(c) ==
    /\ cfUnit[c] = "configuring"
    /\ cfUnit' = [cfUnit EXCEPT ![c] = "started"]
    /\ UNCHANGED <<cfPc, cfFsid, cfGen, cfFile, cfMonFsid, cfLaunched>>
    /\ UNCHANGED <<supVars, nbdVars, pollVars, osdVars, logVars, credVars, monVars>>

NextConf ==
    \/ CfGenerate
    \/ CfCreate
    \/ CfRender
    \/ CfOwner
    \/ CfLaunch
    \/ \E c \in Daemons : CfConfigure(c)
    \/ \E c \in Daemons : CfStart(c)

InitConf ==
    /\ cfPc = "gen"
    /\ cfFsid = "none"
    /\ cfGen = 0
    /\ cfFile \in {"none"} \cup Uuids
    /\ cfMonFsid = "none"
    /\ cfLaunched = 0
    /\ cfUnit = [c \in Daemons |-> "idle"]
    /\ RestSup /\ RestNbd /\ RestPoll /\ RestOsd /\ RestLog /\ RestCred /\ RestMon

SpecConf == InitConf /\ [][NextConf]_vars

(***************************************************************************)
(* Claims about the cluster identity (checked under SpecConf)              *)
(***************************************************************************)

\* C27: the cluster identity is generated exactly once and, once generated,
\* never changes; a unit is launched only after ceph.conf was written with
\* it; the fsid the monitor uses is the one in ceph.conf; and when writing
\* ceph.conf fails, main exits with no unit launched, configured or started.
C27_OneIdentity ==
    /\ [](/\ cfGen <= 1
          /\ cfPc # "gen" => cfGen = 1 /\ cfFsid \in Uuids
          /\ cfLaunched > 0 => cfFile = cfFsid
          /\ cfMonFsid # "none" => cfMonFsid = cfFile
          /\ \A c \in Daemons : cfUnit[c] # "idle" => cfPc \in {"launch", "wait"}
          /\ cfPc = "exited" =>
                 cfLaunched = 0 /\ \A c \in Daemons : cfUnit[c] = "idle")
    /\ [][cfFsid # "none" => cfFsid' = cfFsid]_vars
    /\ [][cfLaunched > 0 => cfFile' = cfFile]_vars

\* The monitor is being configured with the identity that main generated and
\* wrote, over a ceph.conf that an earlier run had left with another one.
C27_Witness ==
    /\ cfUnit["mon"] = "configuring"
    /\ cfMonFsid = "u2" /\ cfFile = "u2" /\ cfFsid = "u2"
    /\ cfPc = "launch"

\* Changing the owner of ceph.conf failed: main has exited, nothing was
\* launched.
C27_WitnessWriteFailed ==
    /\ cfPc = "exited"
    /\ cfFile = cfFsid
    /\ cfLaunched = 0

(***************************************************************************)
(* Monitor.Configure: keyrings, monmap, mkfs, cleanup (SpecMon)            *)
(***************************************************************************)

\* The number of times Configure is invoked.
MaxRuns == 2

\* The content of a file: none when the file is absent, else the number of
\* the key material (or of the monmap) written into it.
NoFile == <<>>
Content(n) == <<n>>

\* The shared keyrings and the monitor's temporary files.
SharedFiles == {"admin", "bootstrap"}
TmpFiles == {"tmpKeyring", "monmap"}

\* The steps of Configure in program order.
MonSteps == <<"statAdmin", "createAdmin", "statBootstrap", "createBootstrap",
              "tmpKeyring", "importAdmin", "importBootstrap", "monmap", "mkdir",
              "mkfs", "rmKeyring", "rmMonmap", "owner">>

\* The step after step s ("done": Configure returns nil).
MonStepAfter(s) ==
    LET i == CHOOSE j \in 1..Len(MonSteps) : MonSteps[j] = s
    IN IF i = Len(MonSteps) THEN "done" ELSE MonSteps[i + 1]

\* The error a failing step ends Configure with.
MonErrOf(s) ==
    CASE s \in {"createAdmin", "createBootstrap", "tmpKeyring"} -> "could not create keyring"
      [] s \in {"importAdmin", "importBootstrap"} -> "could not import keyring"
      [] s = "monmap"    -> "could not create monmap"
      [] s = "mkdir"     -> "could not create directory"
      [] s = "mkfs"      -> "could not create monitor"
      [] s = "rmKeyring" -> "could not delete keyring"
      [] s = "rmMonmap"  -> "could not delete temporary monmap"
      [] s = "owner"     -> "could not change owner"

\* The file a step writes.
FileOf(s) ==
    CASE s = "createAdmin"     -> "admin"
      [] s = "createBootstrap" -> "bootstrap"
      [] s = "tmpKeyring"      -> "tmpKeyring"
      [] s = "monmap"          -> "monmap"

\* What os.Stat gives for a file: nil when it is there, ErrNotExist when it
\* is absent, and in both cases possibly another error (permission).
StatResults(content) ==
    IF content = NoFile THEN {"notExist", "other"} ELSE {"nil", "other"}

\* os.IsNotExist(err): the keyring is created (the mutant creates it whatever
\* os.Stat gave).
NeedsCreateAlways(stat) == TRUE

NeedsCreate(stat) == stat = "notExist"

\* os.Remove / os.RemoveAll of a temporary file (the mutant leaves it).
RemovedNot(files, f) == files

Removed(files, f) == [files EXCEPT ![f] = NoFile]

\* History: step s of the current invocation ran with result res.
MnRan(s, res) == mnLog' = Append(mnLog, <<s, res>>)

\* The step ended well.
MnGoOn(s) ==
    /\ mnPc' = MonStepAfter(s)
    /\ mnErr' = IF MonStepAfter(s) = "done" THEN "nil" ELSE mnErr
    /\ MnRan(s, "ok")

\* The step failed: Configure returns its error.
MnFail(s) ==
    /\ mnPc' = "done"
    /\ mnErr' = MonErrOf(s)
    /\ MnRan(s, "failed")

\* The unit of work (or a later run of the program) calls Configure.
MnInvoke ==
    /\ mnPc = "done"
    /\ mnRun < MaxRuns
    /\ mnRun' = mnRun + 1
    /\ mnPc' = "statAdmin"
    /\ mnPre' = mnFiles
    /\ mnLog' = <<>>
    /\ mnErr' = ""
    /\ UNCHANGED <<mnFiles, mnGen>>
    /\ UNCHANGED <<supVars, nbdVars, pollVars, osdVars, logVars, credVars, confVars>>

\* os.Stat of a shared keyring: Configure runs ceph-authtool --create-keyring
\* only when the error is ErrNotExist.
MnStat(s) ==
    /\ s \in {"statAdmin", "statBootstrap"}
    /\ mnPc = s
    /\ \E stat \in StatResults(mnFiles[FileOf(MonStepAfter(s))]) :
          /\ mnPc' = IF NeedsCreate(stat) THEN MonStepAfter(s)
                     ELSE MonStepAfter(MonStepAfter(s))
          /\ MnRan(s, stat)
    /\ UNCHANGED <<mnRun, mnFiles, mnGen, mnPre, mnErr>>
    /\ UNCHANGED <<supVars, nbdVars, pollVars, osdVars, logVars, credVars, confVars>>

\* ceph-authtool --create-keyring ... --gen-key and monmaptool --create: the
\* file gets new content; a failing command may have written it or not.
MnCreate(s) ==
    /\ s \in {"createAdmin", "createBootstrap", "tmpKeyring", "monmap"}
    /\ mnPc = s
    /\ \/ /\ mnFiles' = [mnFiles EXCEPT ![FileOf(s)] = Content(mnGen + 1)]
          /\ mnGen' = mnGen + 1
          /\ MnGoOn(s) \/ MnFail(s)
       \/ /\ UNCHANGED <<mnFiles, mnGen>>
          /\ MnFail(s)
    /\ UNCHANGED <<mnRun, mnPre>>
    /\ UNCHANGED <<supVars, nbdVars, pollVars, osdVars, logVars, credVars, confVars>>

\* ceph-authtool --import-keyring, os.MkdirAll, ceph-mon --mkfs, ceph.User
\* with the two chown calls: none of them creates or removes one of the files.
MnCommand(s) ==
    /\ s \in {"importAdmin", "importBootstrap", "mkdir", "mkfs", "owner"}
    /\ mnPc = s
    /\ MnGoOn(s) \/ MnFail(s)
    /\ UNCHANGED <<mnRun, mnFiles, mnGen, mnPre>>
    /\ UNCHANGED <<supVars, nbdVars, pollVars, osdVars, logVars, credVars, confVars>>

\* os.Remove(keyRingPath) and os.RemoveAll of the monmap.
MnRemove(s) ==
    /\ s \in {"rmKeyring", "rmMonmap"}
    /\ mnPc = s
    /\ LET f == IF s = "rmKeyring" THEN "tmpKeyring" ELSE "monmap"
       IN \/ mnFiles' = Removed(mnFiles, f) /\ MnGoOn(s)
          \/ UNCHANGED mnFiles /\ MnFail(s)
    /\ UNCHANGED <<mnRun, mnGen, mnPre>>
    /\ UNCHANGED <<supVars, nbdVars, pollVars, osdVars, logVars, credVars, confVars>>

NextMon ==
    \/ MnInvoke
    \/ \E s \in {"statAdmin", "statBootstrap"} : MnStat(s)
    \/ \E s \in {"createAdmin", "createBootstrap", "tmpKeyring", "monmap"} : MnCreate(s)
    \/ \E s \in {"importAdmin", "importBootstrap", "mkdir", "mkfs", "owner"} :
          MnCommand(s)
    \/ \E s \in {"rmKeyring", "rmMonmap"} : MnRemove(s)

\* Before the first invocation: a shared keyring is absent or pre-provisioned
\* (content 0), the temporary files are absent.
InitMon ==
    /\ mnPc = "done"
    /\ mnRun = 0
    /\ mnFiles \in {f \in [SharedFiles \cup TmpFiles -> {NoFile, Content(0)}] :
                        \A t \in TmpFiles : f[t] = NoFile}
    /\ mnGen = 0
    /\ mnPre = mnFiles
    /\ mnLog = <<>>
    /\ mnErr = ""
    /\ RestSup /\ RestNbd /\ RestPoll /\ RestOsd /\ RestLog /\ RestCred /\ RestConf

SpecMon == InitMon /\ [][NextMon]_vars

(***************************************************************************)
(* Claims about Monitor.Configure (checked under SpecMon)                  *)
(***************************************************************************)

\* Step s of the current invocation ran with result res.
MnDid(s, res) == \E i \in 1..Len(mnLog) : mnLog[i] = <<s, res>>

\* C31: Configure never regenerates an existing shared keyring. A shared
\* keyring that was there when an invocation began has the same content
\* throughout it, no step ever changes the content of a shared keyring that
\* exists, and the create command runs only after os.Stat gave ErrNotExist;
\* the temporary keyring and the monmap are written anew by every invocation
\* that gets as far: the steps that create them are never skipped and give
\* them new content.
C31_SharedKeyringsKept ==
    /\ [](\A f \in SharedFiles : mnPre[f] # NoFile => mnFiles[f] = mnPre[f])
    /\ [](/\ MnDid("createAdmin", "ok") \/ MnDid("createAdmin", "failed")
                => MnDid("statAdmin", "notExist")
          /\ MnDid("createBootstrap", "ok") \/ MnDid("createBootstrap", "failed")
                => MnDid("statBootstrap", "notExist"))
    /\ [][\A f \in SharedFiles : mnFiles[f] # NoFile => mnFiles'[f] = mnFiles[f]]_vars
    /\ [](MnDid("importAdmin", "ok") => MnDid("tmpKeyring", "ok"))
    /\ [](MnDid("mkdir", "ok") => MnDid("monmap", "ok"))
    /\ [][\A s \in {"tmpKeyring", "monmap"} :
              (mnPc = s /\ mnPc' = MonStepAfter(s))
                  => (mnFiles'[FileOf(s)] = Content(mnGen') /\ mnGen' > mnGen
                      /\ \A g \in SharedFiles \cup TmpFiles :
                             mnPre[g] # mnFiles'[FileOf(s)])]_vars

\* The second invocation has come to its end with nil: both shared keyrings
\* are the ones the first invocation created.
C31_Witness ==
    /\ mnRun = 2 /\ mnPc = "done" /\ mnErr = "nil"
    /\ mnFiles["admin"] = Content(1) /\ mnFiles["bootstrap"] = Content(2)
    /\ MnDid("statAdmin", "nil") /\ MnDid("statBootstrap", "nil")
    /\ MnDid("tmpKeyring", "ok") /\ MnDid("monmap", "ok")

\* A pre-provisioned admin keyring is kept while the bootstrap keyring is
\* created.
C31_WitnessProvisioned ==
    /\ mnRun = 1 /\ mnPc = "done" /\ mnErr = "nil"
    /\ mnFiles["admin"] = Content(0) /\ mnFiles["bootstrap"] = Content(1)

\* C33: after Configure has returned nil neither the temporary keyring nor
\* the temporary monmap exists; when Configure fails at or before the mkfs
\* step, the failing step removes no temporary file, and the temporary files
\* whose creation had succeeded are still there.
C33_TmpFilesRemovedOnSuccessOnly ==
    /\ []((mnPc = "done" /\ mnErr = "nil") => \A f \in TmpFiles : mnFiles[f] = NoFile)
    /\ []((mnPc = "done" /\ mnRun > 0 /\ ~MnDid("mkfs", "ok")) =>
              /\ MnDid("tmpKeyring", "ok") => mnFiles["tmpKeyring"] # NoFile
              /\ MnDid("monmap", "ok") => mnFiles["monmap"] # NoFile)
    /\ [][(mnPc' = "done" /\ mnPc # "done" /\ ~MnDid("mkfs", "ok"))
              => \A f \in TmpFiles : mnFiles[f] # NoFile => mnFiles'[f] # NoFile]_vars

\* ceph-mon --mkfs failed: Configure is over and both temporary files are
\* still there.
C33_Witness ==
    /\ mnPc = "done"
    /\ mnErr = "could not create monitor"
    /\ mnFiles["tmpKeyring"] # NoFile
    /\ mnFiles["monmap"] # NoFile

\* Configure returned nil after it had created both temporary files: they
\* are gone.
C33_WitnessSuccess ==
    /\ mnPc = "done" /\ mnErr = "nil"
    /\ MnDid("tmpKeyring", "ok") /\ MnDid("monmap", "ok")
    /\ \A f \in TmpFiles : mnFiles[f] = NoFile

====
